---- MODULE Spec2Model ----
(***************************************************************************)
(* A model of the car-arbitrage scraper: the CarListing arithmetic and the *)
(* is_profitable predicate (car_scraper.py), the orchestrator search_all   *)
(* with its final URL de-duplication, and the web application's run        *)
(* lifecycle (app.py): start requests, background run threads, the monitor *)
(* thread that publishes snapshots, and the shared scraper_status and      *)
(* latest_deals.                                                           *)
(*                                                                         *)
(* Strings are Python strings.  Substring tests, str.lower, str.strip and  *)
(* the year regular expression are tables over the finite vocabulary of    *)
(* the model; every row was computed with the Python operation it stands   *)
(* for.  Distances are in thousandths of a mile; a profit margin is an     *)
(* exact fraction [num, den] in lowest terms.                              *)
(***************************************************************************)
EXTENDS Integers, Sequences, FiniteSets, TLC

VARIABLES
  scraper_status,  \* app.py global: running, last_run, error, progress, current_action, action_log
  latest_deals,    \* app.py global: the published result set (a list of dicts)
  response,        \* the answer of the last POST /api/scrape
  thread,          \* per run thread: its position (pc), its use_demo argument, and
                   \* whether an exception has escaped its run body
  finder,          \* per run thread: the CarArbitrageFinder's all_listings and profitable_deals
  frame,           \* per run thread: the locals of search_all
  monitor,         \* per run thread: the monitor thread's position and the list it has built
  env,             \* the environment: start requests and advertisements still to come
  built,           \* the CarListing built on its own, if any
  verdict,         \* what is_profitable returned for it
  called,          \* the adapter call made on its own, if any
  priced           \* the price text parsed on its own and what extract_price returned

vars == <<scraper_status, latest_deals, response, thread, finder, frame, monitor, env, built, verdict, called, priced>>

(***************************************************************************)
(* Configuration                                                           *)
(***************************************************************************)
LIVERPOOL_COORDS == <<534084, -29916>>

MAX_DISTANCE_MILES == 300

COSTS_PER_CAR == 650

\* The catalog (make, model left out)
TARGET_CARS ==
  ("peugeot_306_dturbo" :> [search_terms |-> <<"Peugeot 306 D-Turbo", "Peugeot 306 DTurbo", "306 D Turbo", "306 Diesel">>,
     max_price |-> 5000,
     ni_markup |-> 2700,
     min_profit |-> 1000,
     avg_uk_price |-> 3500,
     avg_ni_price |-> 6200]) @@
  ("lexus_is200" :> [search_terms |-> <<"Lexus IS200", "Lexus IS-200", "IS200 Sport", "IS200 manual">>,
     max_price |-> 6000,
     ni_markup |-> 2700,
     min_profit |-> 1000,
     avg_uk_price |-> 3000,
     avg_ni_price |-> 5700]) @@
  ("bmw_e46_330" :> [search_terms |-> <<"BMW 330i", "BMW 330ci", "E46 330", "330i Sport", "330ci M Sport">>,
     max_price |-> 8000,
     ni_markup |-> 2800,
     min_profit |-> 1000,
     avg_uk_price |-> 5000,
     avg_ni_price |-> 7800]) @@
  ("honda_civic_ep3_type_r" :> [search_terms |-> <<"Honda Civic Type R EP3", "Civic EP3 Type R", "EP3 Type R", "Honda Civic Type R">>,
     max_price |-> 12000,
     ni_markup |-> 3500,
     min_profit |-> 1000,
     avg_uk_price |-> 7500,
     avg_ni_price |-> 11000,
     year_min |-> 2001,
     year_max |-> 2005,
     exclude_keywords |-> <<"fn2", "fk2", "fk8", "fl5", "2006", "2007", "2008", "2009", "2010", "2011">>]) @@
  ("bmw_e60_530d" :> [search_terms |-> <<"BMW 530d", "E60 530d", "530d Sport", "BMW 530 diesel">>,
     max_price |-> 7000,
     ni_markup |-> 2700,
     min_profit |-> 1000,
     avg_uk_price |-> 4500,
     avg_ni_price |-> 7200]) @@
  ("bmw_e60_535d" :> [search_terms |-> <<"BMW 535d", "E60 535d", "535d M-Sport", "BMW 535 diesel">>,
     max_price |-> 9000,
     ni_markup |-> 2800,
     min_profit |-> 1000,
     avg_uk_price |-> 5500,
     avg_ni_price |-> 8300]) @@
  ("bmw_f30_330d" :> [search_terms |-> <<"BMW 330d", "F30 330d", "330d Sport", "330d M-Sport">>,
     max_price |-> 18000,
     ni_markup |-> 3000,
     min_profit |-> 1000,
     avg_uk_price |-> 12000,
     avg_ni_price |-> 15000]) @@
  ("bmw_f30_335d" :> [search_terms |-> <<"BMW 335d", "F30 335d", "335d M-Sport", "335d xDrive">>,
     max_price |-> 22000,
     ni_markup |-> 3500,
     min_profit |-> 1000,
     avg_uk_price |-> 15000,
     avg_ni_price |-> 18500])

\* The catalog's keys in dict order
TARGET_CARS_keys == <<"peugeot_306_dturbo", "lexus_is200", "bmw_e46_330", "honda_civic_ep3_type_r", "bmw_e60_530d", "bmw_e60_535d", "bmw_f30_330d", "bmw_f30_335d">>

(***************************************************************************)
(* Tables of the string operations                                         *)
(***************************************************************************)
\* str.lower() on the titles of the model
lower ==
  ("AutoTrader Listing" :> "autotrader listing") @@
  ("BMW 330i Sport" :> "bmw 330i sport") @@
  ("Honda Civic Type R" :> "honda civic type r") @@
  ("WANTED BMW 330i" :> "wanted bmw 330i") @@
  ("BMW 330i Touring" :> "bmw 330i touring") @@
  ("Civic Type R FN2" :> "civic type r fn2") @@
  ("Wanted: X model, any condition" :> "wanted: x model, any condition") @@
  ("Peugeot 306 D-Turbo - 3 Door - Full Service History" :> "peugeot 306 d-turbo - 3 door - full service history") @@
  ("Peugeot 306 DTurbo 3dr - Clean Example" :> "peugeot 306 dturbo 3dr - clean example") @@
  ("Lexus IS200 Sport Manual - Excellent Condition" :> "lexus is200 sport manual - excellent condition") @@
  ("Lexus IS-200 SE Manual 6 Speed - FSH" :> "lexus is-200 se manual 6 speed - fsh") @@
  ("BMW E46 330i M Sport Manual - Full History" :> "bmw e46 330i m sport manual - full history") @@
  ("BMW 330ci E46 Coupe Manual - Excellent" :> "bmw 330ci e46 coupe manual - excellent") @@
  ("Honda Civic Type R EP3 - Championship White - FSH" :> "honda civic type r ep3 - championship white - fsh") @@
  ("Honda Civic EP3 Type-R - Recaro Seats - HPI Clear" :> "honda civic ep3 type-r - recaro seats - hpi clear") @@
  ("BMW 530d E60 M Sport Auto - Full BMW History" :> "bmw 530d e60 m sport auto - full bmw history") @@
  ("BMW 330d F30 M Sport - Pro Nav - Leather" :> "bmw 330d f30 m sport - pro nav - leather")

\* kw in s, for the keywords of is_profitable: the keywords of the model that occur in s
KeywordsIn ==
  ("AutoTrader Listing" :> {}) @@
  ("autotrader listing" :> {}) @@
  ("BMW 330i Sport" :> {"330i", "330"}) @@
  ("bmw 330i sport" :> {"330i", "330"}) @@
  ("Honda Civic Type R" :> {}) @@
  ("honda civic type r" :> {"civic", "type r"}) @@
  ("WANTED BMW 330i" :> {"330i", "330"}) @@
  ("wanted bmw 330i" :> {"wanted", "330i", "330"}) @@
  ("BMW 330i Touring" :> {"330i", "330"}) @@
  ("bmw 330i touring" :> {"touring", "330i", "330"}) @@
  ("Civic Type R FN2" :> {}) @@
  ("civic type r fn2" :> {"fn2", "civic", "type r"}) @@
  ("Wanted: X model, any condition" :> {}) @@
  ("wanted: x model, any condition" :> {"wanted"}) @@
  ("Peugeot 306 D-Turbo - 3 Door - Full Service History" :> {"306"}) @@
  ("peugeot 306 d-turbo - 3 door - full service history" :> {"306"}) @@
  ("Peugeot 306 DTurbo 3dr - Clean Example" :> {"306"}) @@
  ("peugeot 306 dturbo 3dr - clean example" :> {"306"}) @@
  ("Lexus IS200 Sport Manual - Excellent Condition" :> {}) @@
  ("lexus is200 sport manual - excellent condition" :> {"is200"}) @@
  ("Lexus IS-200 SE Manual 6 Speed - FSH" :> {}) @@
  ("lexus is-200 se manual 6 speed - fsh" :> {"is-200"}) @@
  ("BMW E46 330i M Sport Manual - Full History" :> {"330i", "330"}) @@
  ("bmw e46 330i m sport manual - full history" :> {"330i", "330"}) @@
  ("BMW 330ci E46 Coupe Manual - Excellent" :> {"330ci", "330"}) @@
  ("bmw 330ci e46 coupe manual - excellent" :> {"330ci", "330"}) @@
  ("Honda Civic Type R EP3 - Championship White - FSH" :> {}) @@
  ("honda civic type r ep3 - championship white - fsh" :> {"civic", "type r"}) @@
  ("Honda Civic EP3 Type-R - Recaro Seats - HPI Clear" :> {}) @@
  ("honda civic ep3 type-r - recaro seats - hpi clear" :> {"civic", "type-r"}) @@
  ("BMW 530d E60 M Sport Auto - Full BMW History" :> {"530d", "530"}) @@
  ("bmw 530d e60 m sport auto - full bmw history" :> {"530d", "530"}) @@
  ("BMW 330d F30 M Sport - Pro Nav - Leather" :> {"330", "330d"}) @@
  ("bmw 330d f30 m sport - pro nav - leather" :> {"330", "330d"})

\* re.search(r'(19|20)\d{2}', str(year)): the year matched, none for no match
YearSearch ==
  ("1999" :> {1999}) @@
  ("2000" :> {2000}) @@
  ("2002" :> {2002}) @@
  ("2003" :> {2003}) @@
  ("2004" :> {2004}) @@
  ("2005" :> {2005}) @@
  ("2007" :> {2007}) @@
  ("2008" :> {2008}) @@
  ("2015" :> {2015}) @@
  ("Unknown" :> {}) @@
  ("" :> {})

\* Prices as a response writes them; {pound} stands for the pound sign.
\* extract_price(str(item.get('price', 0))) for a price that the response
\* writes as the text on the left (a JSON number when it is one, a JSON
\* string otherwise, no 'price' key when empty)
extract_price ==
  ("4000" :> 4000) @@
  ("6500" :> 6500) @@
  ("25000" :> 25000) @@
  ("-4000" :> 4000) @@
  ("0" :> 0) @@
  ("POA" :> 0) @@
  ("{pound}4,000" :> 4000) @@
  ("" :> 0)

\* price_el = el.find(string=re.compile(r'{pound}[\d,]+')); extract_price(price_el)
\* if price_el else 0, for an element whose text shows the price on the left
html_price ==
  ("4000" :> 0) @@
  ("6500" :> 0) @@
  ("25000" :> 0) @@
  ("-4000" :> 0) @@
  ("0" :> 0) @@
  ("POA" :> 0) @@
  ("{pound}4,000" :> 4000) @@
  ("" :> 0)

\* int(item.get('price', 0)): the value, none when int raises
int_price ==
  ("4000" :> {4000}) @@
  ("6500" :> {6500}) @@
  ("25000" :> {25000}) @@
  ("-4000" :> {-4000}) @@
  ("0" :> {0}) @@
  ("POA" :> {}) @@
  ("{pound}4,000" :> {}) @@
  ("" :> {0})

\* The table of geocode_location, in dict order; coordinates in 1e-4 degrees
locations == <<
  <<"manchester", <<534808, -22426>>>>,
  <<"liverpool", <<534084, -29916>>>>,
  <<"chester", <<531908, -28908>>>>,
  <<"warrington", <<533900, -25970>>>>,
  <<"preston", <<537632, -27031>>>>,
  <<"blackpool", <<538175, -30357>>>>,
  <<"bolton", <<535768, -24282>>>>,
  <<"wigan", <<535450, -26318>>>>,
  <<"southport", <<536472, -30054>>>>,
  <<"blackburn", <<537480, -24821>>>>,
  <<"burnley", <<537895, -22482>>>>,
  <<"lancaster", <<540466, -28007>>>>,
  <<"crewe", <<530979, -24416>>>>,
  <<"stoke", <<530027, -21794>>>>,
  <<"leeds", <<538008, -15491>>>>,
  <<"sheffield", <<533811, -14701>>>>,
  <<"york", <<539600, -10873>>>>,
  <<"bradford", <<537960, -17594>>>>,
  <<"huddersfield", <<536458, -17850>>>>,
  <<"birmingham", <<524862, -18904>>>>,
  <<"nottingham", <<529548, -11581>>>>,
  <<"leicester", <<526369, -11398>>>>,
  <<"derby", <<529225, -14746>>>>,
  <<"coventry", <<524068, -15197>>>>,
  <<"wolverhampton", <<525867, -21290>>>>,
  <<"cardiff", <<514816, -31791>>>>,
  <<"swansea", <<516214, -39436>>>>,
  <<"wrexham", <<530462, -29930>>>>,
  <<"newcastle", <<549783, -16178>>>>,
  <<"carlisle", <<548951, -29382>>>>,
  <<"london", <<515074, -1278>>>>,
  <<"bristol", <<514545, -25879>>>>,
  <<"oxford", <<517520, -12577>>>>,
  <<"cambridge", <<522053, 1218>>>>,
  <<"norwich", <<526309, 12974>>>>,
  <<"southampton", <<509097, -14044>>>>,
  <<"portsmouth", <<508198, -10880>>>>,
  <<"brighton", <<508225, -1372>>>>,
  <<"exeter", <<507184, -35339>>>>,
  <<"plymouth", <<503755, -41427>>>>,
  <<"hull", <<537676, -3274>>>>,
  <<"middlesbrough", <<545742, -12350>>>>,
  <<"sunderland", <<549069, -13838>>>>,
  <<"doncaster", <<535228, -11285>>>>,
  <<"wakefield", <<536833, -14977>>>>,
  <<"harrogate", <<539921, -15418>>>> >>

\* For a location text: location.lower().strip(), and the cities of the
\* table that occur in it
LocationText ==
  ("Manchester" :> [lower_strip |-> "manchester", cities |-> {"manchester", "chester"}]) @@
  (" Chester " :> [lower_strip |-> "chester", cities |-> {"chester"}]) @@
  ("Unknown" :> [lower_strip |-> "unknown", cities |-> {}]) @@
  ("Thurso" :> [lower_strip |-> "thurso", cities |-> {}])

\* haversine_distance(LIVERPOOL_COORDS, c) in thousandths of a mile
MilesFromLiverpool ==
  (<<534808, -22426>> :> 31228) @@
  (<<534084, -29916>> :> 0) @@
  (<<531908, -28908>> :> 15601) @@
  (<<533900, -25970>> :> 16307) @@
  (<<537632, -27031>> :> 27222) @@
  (<<538175, -30357>> :> 28326) @@
  (<<535768, -24282>> :> 25919) @@
  (<<535450, -26318>> :> 17550) @@
  (<<536472, -30054>> :> 16510) @@
  (<<537480, -24821>> :> 31425) @@
  (<<537895, -22482>> :> 40282) @@
  (<<540466, -28007>> :> 44783) @@
  (<<530979, -24416>> :> 31261) @@
  (<<530027, -21794>> :> 43768) @@
  (<<538008, -15491>> :> 65059) @@
  (<<533811, -14701>> :> 62717) @@
  (<<539600, -10873>> :> 86745) @@
  (<<537960, -17594>> :> 57181) @@
  (<<536458, -17850>> :> 52204) @@
  (<<524862, -18904>> :> 78500) @@
  (<<529548, -11581>> :> 82135) @@
  (<<526369, -11398>> :> 93619) @@
  (<<529225, -14746>> :> 71246) @@
  (<<524068, -15197>> :> 92474) @@
  (<<525867, -21290>> :> 67159) @@
  (<<514816, -31791>> :> 133371) @@
  (<<516214, -39436>> :> 129801) @@
  (<<530462, -29930>> :> 25027) @@
  (<<549783, -16178>> :> 121861) @@
  (<<548951, -29382>> :> 102750) @@
  (<<515074, -1278>> :> 178278) @@
  (<<514545, -25879>> :> 136076) @@
  (<<517520, -12577>> :> 135636) @@
  (<<522053, 1218>> :> 154325) @@
  (<<526309, 12974>> :> 186158) @@
  (<<509097, -14044>> :> 185288) @@
  (<<508198, -10880>> :> 196241) @@
  (<<508225, -1372>> :> 215820) @@
  (<<507184, -35339>> :> 187293) @@
  (<<503755, -41427>> :> 215230) @@
  (<<537676, -3274>> :> 112049) @@
  (<<545742, -12350>> :> 107608) @@
  (<<549069, -13838>> :> 122275) @@
  (<<535228, -11285>> :> 77041) @@
  (<<536833, -14977>> :> 64207) @@
  (<<539921, -15418>> :> 71719) @@
  (<<585936, -35221>> :> 358868)

\* The samples of create_sample_data (mileage left out)
samples == <<
  [model_type |-> "peugeot_306_dturbo", title |-> "Peugeot 306 D-Turbo - 3 Door - Full Service History", price |-> 3800, location |-> "Manchester",
   coords |-> <<534808, -22426>>, url |-> "https://www.gumtree.com/p/cars/peugeot-306-d-turbo/1234567890", year |-> "1999", source |-> "Gumtree"],
  [model_type |-> "peugeot_306_dturbo", title |-> "Peugeot 306 DTurbo 3dr - Clean Example", price |-> 4200, location |-> "Leeds",
   coords |-> <<538008, -15491>>, url |-> "https://www.autotrader.co.uk/car-details/202602150001", year |-> "2000", source |-> "AutoTrader"],
  [model_type |-> "lexus_is200", title |-> "Lexus IS200 Sport Manual - Excellent Condition", price |-> 3200, location |-> "Chester",
   coords |-> <<531908, -28908>>, url |-> "https://www.autotrader.co.uk/car-details/202602150002", year |-> "2003", source |-> "AutoTrader"],
  [model_type |-> "lexus_is200", title |-> "Lexus IS-200 SE Manual 6 Speed - FSH", price |-> 2900, location |-> "Birmingham",
   coords |-> <<524862, -18904>>, url |-> "https://www.gumtree.com/p/cars/lexus-is200-manual/1234567891", year |-> "2002", source |-> "Gumtree"],
  [model_type |-> "bmw_e46_330", title |-> "BMW E46 330i M Sport Manual - Full History", price |-> 4500, location |-> "Preston",
   coords |-> <<537632, -27031>>, url |-> "https://www.autotrader.co.uk/car-details/202602150003", year |-> "2004", source |-> "AutoTrader"],
  [model_type |-> "bmw_e46_330", title |-> "BMW 330ci E46 Coupe Manual - Excellent", price |-> 3800, location |-> "Sheffield",
   coords |-> <<533811, -14701>>, url |-> "https://www.pistonheads.com/classifieds/used-cars/bmw/e46/12345678", year |-> "2003", source |-> "PistonHeads"],
  [model_type |-> "honda_civic_ep3_type_r", title |-> "Honda Civic Type R EP3 - Championship White - FSH", price |-> 7200, location |-> "Bolton",
   coords |-> <<535768, -24282>>, url |-> "https://www.autotrader.co.uk/car-details/202602150004", year |-> "2005", source |-> "AutoTrader"],
  [model_type |-> "honda_civic_ep3_type_r", title |-> "Honda Civic EP3 Type-R - Recaro Seats - HPI Clear", price |-> 6500, location |-> "Warrington",
   coords |-> <<533900, -25970>>, url |-> "https://www.pistonheads.com/classifieds/used-cars/honda/civic/12345679", year |-> "2004", source |-> "PistonHeads"],
  [model_type |-> "bmw_e60_530d", title |-> "BMW 530d E60 M Sport Auto - Full BMW History", price |-> 3500, location |-> "Liverpool",
   coords |-> <<534084, -29916>>, url |-> "https://www.autotrader.co.uk/car-details/202602150006", year |-> "2007", source |-> "AutoTrader"],
  [model_type |-> "bmw_f30_330d", title |-> "BMW 330d F30 M Sport - Pro Nav - Leather", price |-> 9800, location |-> "Manchester",
   coords |-> <<534808, -22426>>, url |-> "https://www.autotrader.co.uk/car-details/202602150007", year |-> "2015", source |-> "AutoTrader"] >>


(***************************************************************************)
(* Python helpers                                                          *)
(***************************************************************************)
\* An empty dict
EmptyDict == [k \in {} |-> 0]

\* dict.get(key, default)
Get(d, key, default) == IF key \in DOMAIN d THEN d[key] ELSE default

Range(s) == {s[i] : i \in DOMAIN s}

Abs(x) == IF x < 0 THEN -x ELSE x

RECURSIVE GCD(_, _)
GCD(a, b) == IF b = 0 THEN a ELSE GCD(b, a % b)

\* The value of n / d * 100 for d > 0, as a fraction in lowest terms
Percent(n, d) ==
  LET g == GCD(Abs(n * 100), d)
  IN  [num |-> (n * 100) \div g, den |-> d \div g]

\* The number 0 as a fraction
Zero == [num |-> 0, den |-> 1]

(***************************************************************************)
(* haversine_distance and geocode_location                                 *)
(***************************************************************************)
\* Every call passes LIVERPOOL_COORDS as coord1; the result is in
\* thousandths of a mile.
haversine_distance(coord1, coord2) == MilesFromLiverpool[coord2]

RECURSIVE FirstCity(_, _)
FirstCity(i, found) ==
  IF i > Len(locations) THEN LIVERPOOL_COORDS
  ELSE IF locations[i][1] \in found THEN locations[i][2]
  ELSE FirstCity(i + 1, found)

\* The coordinates of the first city of the table, in table order, whose
\* name occurs in location.lower().strip(); Liverpool when none does.
geocode_location(location) == FirstCity(1, LocationText[location].cities)

(***************************************************************************)
(* class CarListing                                                        *)
(***************************************************************************)
\* self.expected_ni_price
expected_ni_price(price, ni_markup) == price + ni_markup

\* A net profit taken from the resale price rather than from the markup:
\* expected_ni_price - COSTS_PER_CAR
net_profit_of_resale(ni_markup, price) == price + ni_markup - COSTS_PER_CAR

\* self.net_profit
net_profit(ni_markup, price) == ni_markup - COSTS_PER_CAR

\* A margin kept as the plain ratio net_profit / price, not as a percentage
profit_margin_as_ratio(profit, price) ==
  IF price > 0
  THEN LET g == GCD(Abs(profit), price)
       IN  [num |-> profit \div g, den |-> price \div g]
  ELSE Zero

\* self.profit_margin
profit_margin(profit, price) == IF price > 0 THEN Percent(profit, price) ELSE Zero

\* CarListing.__init__; oid is the identity of the new object.
CarListing(data, oid) ==
  LET model_type == Get(data, "model_type", "")
      price      == Get(data, "price", 0)
      coords     == Get(data, "coords", LIVERPOOL_COORDS)
      car_config == Get(TARGET_CARS, model_type, EmptyDict)
      ni_markup  == Get(car_config, "ni_markup", 0)
      avg_uk_price == Get(car_config, "avg_uk_price", 0)
      avg_ni_price == Get(car_config, "avg_ni_price", 0)
  IN  [ oid               |-> oid,
        model_type        |-> model_type,
        title             |-> Get(data, "title", ""),
        price             |-> price,
        location          |-> Get(data, "location", ""),
        coords            |-> coords,
        url               |-> Get(data, "url", ""),
        year              |-> Get(data, "year", ""),
        source            |-> Get(data, "source", ""),
        ni_markup         |-> ni_markup,
        expected_ni_price |-> expected_ni_price(price, ni_markup),
        gross_profit      |-> ni_markup,
        net_profit        |-> net_profit(ni_markup, price),
        profit_margin     |-> profit_margin(net_profit(ni_markup, price), price),
        avg_uk_price      |-> avg_uk_price,
        avg_ni_price      |-> avg_ni_price,
        uk_saving         |-> avg_uk_price - price,
        ni_margin         |-> avg_ni_price - expected_ni_price(price, ni_markup),
        distance          |-> haversine_distance(LIVERPOOL_COORDS, coords) ]

\* A title that is not a string: the null of a JSON response
NotAString == "{None}"

\* line 244: self.title.lower() raises AttributeError on such a title
title_lower_raises(self) == self.title = NotAString

wanted_keywords == <<"wanted", "looking for", "wtb", "want to buy", "searching for", "iso">>

estate_keywords == <<"touring", "estate", "tourer", "avant", "sportback">>

\* for kw in keywords: if kw in title_lower: return False
AnyKeywordIn(keywords, title_lower) ==
  \E i \in DOMAIN keywords : keywords[i] \in KeywordsIn[title_lower]

\* A year-range check that also rejects a year text in which no year is found
YearOutOfRange_unparsed_rejected(self, car_config) ==
  LET year_min == Get(car_config, "year_min", 0)
      year_max == Get(car_config, "year_max", 0)
  IN  /\ year_min # 0 \/ year_max # 0
      /\ \/ YearSearch[self.year] = {}
         \/ \E year_val \in YearSearch[self.year] :
               \/ year_min # 0 /\ year_val < year_min
               \/ year_max # 0 /\ year_val > year_max

\* The year-range check of is_profitable: TRUE when it returns False.  A
\* year text without a 4-digit year makes re.search return None, the
\* AttributeError is caught and the listing passes.  A year_min or year_max
\* that is absent is None, which is falsy like 0.
YearOutOfRange(self, car_config) ==
  LET year_min == Get(car_config, "year_min", 0)
      year_max == Get(car_config, "year_max", 0)
  IN  /\ year_min # 0 \/ year_max # 0
      /\ \E year_val \in YearSearch[self.year] :
            \/ year_min # 0 /\ year_val < year_min
            \/ year_max # 0 /\ year_val > year_max

\* The final test with the distance test left out
meets_thresholds_any_distance(self, car_config) ==
  /\ self.price > 0
  /\ self.price <= Get(car_config, "max_price", 999999)
  /\ self.net_profit >= Get(car_config, "min_profit", 0)

\* The final test with a price ceiling that is exclusive
meets_thresholds_below_ceiling(self, car_config) ==
  /\ self.price > 0
  /\ self.price < Get(car_config, "max_price", 999999)
  /\ self.distance <= MAX_DISTANCE_MILES * 1000
  /\ self.net_profit >= Get(car_config, "min_profit", 0)

\* The return expression of is_profitable; distance is in thousandths of
\* a mile
meets_thresholds(self, car_config) ==
  /\ self.price > 0
  /\ self.price <= Get(car_config, "max_price", 999999)
  /\ self.distance <= MAX_DISTANCE_MILES * 1000
  /\ self.net_profit >= Get(car_config, "min_profit", 0)

\* An is_profitable that looks for the buy-request words in the title as
\* written, not in title.lower()
is_profitable_case_sensitive(self) ==
  LET car_config  == Get(TARGET_CARS, self.model_type, EmptyDict)
      title_lower == lower[self.title]
  IN  IF AnyKeywordIn(wanted_keywords, self.title) THEN FALSE
      ELSE IF AnyKeywordIn(estate_keywords, title_lower) THEN FALSE
      ELSE IF AnyKeywordIn(Get(car_config, "exclude_keywords", << >>), title_lower) THEN FALSE
      ELSE IF YearOutOfRange(self, car_config) THEN FALSE
      ELSE meets_thresholds(self, car_config)

\* CarListing.is_profitable
is_profitable(self) ==
  LET car_config  == Get(TARGET_CARS, self.model_type, EmptyDict)
      title_lower == lower[self.title]
  IN  IF AnyKeywordIn(wanted_keywords, title_lower) THEN FALSE
      ELSE IF AnyKeywordIn(estate_keywords, title_lower) THEN FALSE
      ELSE IF AnyKeywordIn(Get(car_config, "exclude_keywords", << >>), title_lower) THEN FALSE
      ELSE IF YearOutOfRange(self, car_config) THEN FALSE
      ELSE meets_thresholds(self, car_config)

\* create_sample_data
create_sample_data == [i \in DOMAIN samples |-> CarListing(samples[i], i)]

(***************************************************************************)
(* Results: sorting, publishing, de-duplication                            *)
(***************************************************************************)
\* sorted(deals, key=lambda x: x.net_profit, reverse=True): a stable sort,
\* deals of equal net_profit keep their order
sorted_by_net_profit(deals) ==
  LET RECURSIVE Ins(_, _)
      \* d goes after every element whose net_profit is >= its own
      Ins(acc, d) ==
        IF acc = << >> THEN <<d>>
        ELSE IF Head(acc).net_profit >= d.net_profit
             THEN <<Head(acc)>> \o Ins(Tail(acc), d)
             ELSE <<d>> \o acc
      RECURSIVE Go(_, _)
      Go(acc, i) == IF i > Len(deals) THEN acc ELSE Go(Ins(acc, deals[i]), i + 1)
  IN  Go(<< >>, 1)

\* round(x, 1) of a distance in thousandths of a mile
round1(x) == ((x + 50) \div 100) * 100

\* deal_to_dict (image left out)
deal_to_dict(d) ==
  [ model_type        |-> d.model_type,
    title             |-> d.title,
    price             |-> d.price,
    avg_uk_price      |-> d.avg_uk_price,
    uk_saving         |-> d.uk_saving,
    expected_ni_price |-> d.expected_ni_price,
    avg_ni_price      |-> d.avg_ni_price,
    net_profit        |-> d.net_profit,
    profit_margin     |-> d.profit_margin,
    location          |-> d.location,
    distance          |-> round1(d.distance),
    year              |-> d.year,
    source            |-> d.source,
    url               |-> d.url ]

\* The published form of a list that is left in the order it was built
published_unsorted(deals) == [i \in DOMAIN deals |-> deal_to_dict(deals[i])]

\* [deal_to_dict(d) for d in sorted(deals, key=net_profit, reverse=True)]
published(deals) ==
  LET s == sorted_by_net_profit(deals)
  IN  [i \in DOMAIN s |-> deal_to_dict(s[i])]

\* A pass that never records the URLs it has seen
unique_deals_no_record(profitable_deals) == profitable_deals

\* A pass that treats the empty URL like any other URL
unique_deals_empty_is_url(profitable_deals) ==
  LET RECURSIVE Loop(_, _, _)
      Loop(i, seen_urls, unique) ==
        IF i > Len(profitable_deals) THEN unique
        ELSE LET deal == profitable_deals[i]
             IN  IF deal.url \notin seen_urls
                 THEN Loop(i + 1, seen_urls \cup {deal.url}, Append(unique, deal))
                 ELSE Loop(i + 1, seen_urls, unique)
  IN  Loop(1, {}, << >>)

\* A pass whose membership test is inverted: a listing is kept when its URL
\* has been met before, and its URL is recorded otherwise
unique_deals_inverted(profitable_deals) ==
  LET RECURSIVE Loop(_, _, _)
      Loop(i, seen_urls, unique) ==
        IF i > Len(profitable_deals) THEN unique
        ELSE LET deal == profitable_deals[i]
             IN  IF deal.url # "" /\ deal.url \in seen_urls
                 THEN Loop(i + 1, seen_urls, Append(unique, deal))
                 ELSE IF deal.url = ""
                 THEN Loop(i + 1, seen_urls, Append(unique, deal))
                 ELSE Loop(i + 1, seen_urls \cup {deal.url}, unique)
  IN  Loop(1, {}, << >>)

\* The final pass of search_all: "Remove duplicates based on URL"
unique_deals(profitable_deals) ==
  LET RECURSIVE Loop(_, _, _)
      Loop(i, seen_urls, unique) ==
        IF i > Len(profitable_deals) THEN unique
        ELSE LET deal == profitable_deals[i]
             IN  IF deal.url # "" /\ deal.url \notin seen_urls
                 THEN Loop(i + 1, seen_urls \cup {deal.url}, Append(unique, deal))
                 ELSE IF deal.url = ""
                 THEN Loop(i + 1, seen_urls, Append(unique, deal))
                 ELSE Loop(i + 1, seen_urls, unique)
  IN  Loop(1, {}, << >>)

(***************************************************************************)
(* The progress feed                                                       *)
(***************************************************************************)
\* A message, with what re.search(r'(\d+)%\s+complete', message) finds in it
Msg(text) == [text |-> text, pct |-> {}]

MsgPct(text, progress_pct) == [text |-> text, pct |-> {progress_pct}]

\* A log that keeps its oldest entries
log_action_keeps_oldest(status, message) ==
  LET logged == Append(status.action_log, message)
  IN  [status EXCEPT
         !.current_action = message.text,
         !.progress = IF message.pct = {} THEN @ ELSE CHOOSE p \in message.pct : TRUE,
         !.action_log = IF Len(logged) > 30 THEN SubSeq(logged, 1, 30) ELSE logged]

\* log_action (the entry's time left out)
log_action(status, message) ==
  LET logged == Append(status.action_log, message)
  IN  [status EXCEPT
         !.current_action = message.text,
         !.progress = IF message.pct = {} THEN @ ELSE CHOOSE p \in message.pct : TRUE,
         !.action_log = IF Len(logged) > 30
                        THEN SubSeq(logged, Len(logged) - 29, Len(logged))
                        ELSE logged]

(***************************************************************************)
(* Bounds and the environment                                              *)
(***************************************************************************)
\* Models of the catalog that a run searches when advertisements are
\* served; a run that is served none searches three more, which makes its
\* log longer than log_action keeps
NumModels == 1

\* Advertisements the marketplaces serve in one behaviour
MaxAds == 2

\* A run iterates the catalog in order; the model explores the window of it
\* that starts at the entry with a year range and exclusion keywords, of
\* the length the scenario gives.
Models == SubSeq(TARGET_CARS_keys, 4, 3 + env.models)

\* The adapters with Gumtree called first
scrapers_gumtree_first == <<"Gumtree", "AutoTrader", "PistonHeads">>

\* self.scrapers, by scraper_name
scrapers == <<"AutoTrader", "Gumtree", "PistonHeads">>

\* Run threads that POST /api/scrape can spawn
Threads == {1, 2}

\* What the marketplaces serve: the elements of a response as an extraction
\* strategy meets them; dict is FALSE for an element that is not an object.
\* a1 and a2 share a URL, a3 has none, a4 is a buy request, a5 costs more
\* than any model's price ceiling.
RawAds == {
  [dict |-> TRUE, title |-> "BMW 330i Sport", price |-> "4000", location |-> "Manchester",
   url |-> "https://ads.example/1", year |-> "2003"],
  [dict |-> TRUE, title |-> "Honda Civic Type R", price |-> "6500", location |-> " Chester ",
   url |-> "https://ads.example/1", year |-> "2004"],
  [dict |-> TRUE, title |-> "Honda Civic Type R", price |-> "6500", location |-> "Unknown",
   url |-> "", year |-> "Unknown"],
  [dict |-> TRUE, title |-> "WANTED BMW 330i", price |-> "4000", location |-> "Manchester",
   url |-> "https://ads.example/2", year |-> "2003"],
  [dict |-> TRUE, title |-> "Honda Civic Type R", price |-> "25000", location |-> "Manchester",
   url |-> "https://ads.example/3", year |-> "2008"] }

\* The element sequences a response can hold when budget.ads elements are
\* still to be served: of a length in budget.sizes, over budget.pool
Responses(budget) ==
  UNION {[1..k -> budget.pool] : k \in {n \in budget.sizes : n <= budget.ads}}

\* An advertisement without URL
NoUrlAd == CHOOSE ad \in RawAds : ad.url = ""

\* An advertisement that is a deal, and one whose title is null
DealAd == [dict |-> TRUE, title |-> "Honda Civic Type R", price |-> "6500",
           location |-> " Chester ", url |-> "https://ads.example/5", year |-> "2004"]

NullTitleAd == [DealAd EXCEPT !.title = NotAString, !.url = "https://ads.example/6"]

\* The behaviours explored, each with what the environment still has to
\* give: start requests (of which live ones), advertisements (the lengths
\* and the elements of a response), transport faults, the CarListing and the
\* adapter call made on their own, the models of the catalog searched, and
\* failures to write the report files.
\*   - two start requests of which at most one is live, no advertisement;
\*   - one start request, up to MaxAds advertisements;
\*   - one start request, one advertisement, one transport fault;
\*   - one start request, five advertisements without URL served together;
\*   - one start request, no advertisement, three more models of the catalog;
\*   - one start request, a deal and an advertisement with a null title
\*     served together;
\*   - one start request, every adapter call of which can meet a transport
\*     fault;
\*   - one start request, a deal, and the report files cannot be written;
\*   - no request: one CarListing is built and evaluated on its own;
\*   - no request: one adapter call is made on its own;
\*   - no request: one price text is parsed on its own.
Quiet == [starts |-> 0, live |-> 0, ads |-> 0, sizes |-> {0}, pool |-> RawAds,
          faults |-> 0, listings |-> 0, pages |-> 0, models |-> NumModels,
          crashes |-> 0, texts |-> 0]

Scenarios == { [Quiet EXCEPT !.starts = 2, !.live = 1],
               [Quiet EXCEPT !.starts = 1, !.live = 1, !.ads = MaxAds, !.sizes = 0..MaxAds],
               [Quiet EXCEPT !.starts = 1, !.live = 1, !.ads = 1, !.sizes = {0, 1}, !.faults = 1],
               [Quiet EXCEPT !.starts = 1, !.live = 1, !.ads = 5, !.sizes = {0, 5}, !.pool = {NoUrlAd}],
               [Quiet EXCEPT !.starts = 1, !.live = 1, !.models = NumModels + 3],
               [Quiet EXCEPT !.starts = 1, !.live = 1, !.ads = 2, !.sizes = {0, 2},
                             !.pool = {DealAd, NullTitleAd}],
               [Quiet EXCEPT !.starts = 1, !.live = 1, !.faults = 4 * NumModels],
               [Quiet EXCEPT !.starts = 1, !.live = 1, !.ads = 1, !.sizes = {0, 1},
                             !.pool = {DealAd}, !.crashes = 1],
               [Quiet EXCEPT !.listings = 1],
               [Quiet EXCEPT !.pages = 1],
               [Quiet EXCEPT !.texts = 1] }

(***************************************************************************)
(* The source adapters                                                     *)
(***************************************************************************)
\* model_keywords of PistonHeadsScraper._parse_apollo_adverts
model_keywords ==
  ("peugeot_306_dturbo" :> <<"306">>) @@
  ("lexus_is200" :> <<"is200", "is 200", "is-200">>) @@
  ("bmw_e46_330" :> <<"330i", "330ci", "330">>) @@
  ("honda_civic_ep3_type_r" :> <<"civic", "type r", "type-r">>) @@
  ("bmw_e60_530d" :> <<"530d", "530">>) @@
  ("bmw_e60_535d" :> <<"535d", "535">>) @@
  ("bmw_f30_330d" :> <<"330d">>) @@
  ("bmw_f30_335d" :> <<"335d">>)

\* for item in search_results[:15]
MaxItems == 15

\* for card in cards[:40]
MaxCards == 40

\* items[:n]
First(items, n) == SubSeq(items, 1, IF Len(items) < n THEN Len(items) ELSE n)

\* The extraction strategies of each adapter, in the order search tries them
strategies ==
  ("AutoTrader" :> <<"next_data", "api", "script", "html">>) @@
  ("Gumtree" :> <<"json", "html">>) @@
  ("PistonHeads" :> <<"apollo", "cards">>)

\* The price a strategy reads from an element; none when reading it raises
price_of(strategy, item) ==
  IF strategy \in {"html", "cards"} THEN {html_price[item.price]}
  ELSE IF strategy = "apollo" THEN int_price[item.price]
  ELSE {extract_price[item.price]}

\* Whether a strategy turns an element into a listing: an element that is
\* not an object raises and is skipped; every strategy requires price > 0;
\* PistonHeads also requires price <= max_price and a model keyword in the
\* lower-cased headline, and skips a headline that is not a string.
accepts(scraper, strategy, model_type, item) ==
  /\ item.dict
  /\ \E price \in price_of(strategy, item) :
        /\ price > 0
        /\ scraper = "PistonHeads" =>
             /\ price <= Get(TARGET_CARS[model_type], "max_price", 999999)
             /\ item.title # NotAString
             /\ AnyKeywordIn(model_keywords[model_type], lower[item.title])

\* The dict a strategy passes to CarListing for an element it accepts
listing_data(scraper, strategy, model_type, item) ==
  [ model_type |-> model_type,
    title      |-> IF strategy \in {"next_data", "api"} /\ item.title = NotAString
                   THEN "AutoTrader Listing" ELSE item.title,
    price      |-> CHOOSE price \in price_of(strategy, item) : TRUE,
    location   |-> IF strategy = "html" THEN "Liverpool area"
                   ELSE IF strategy = "cards" THEN "Unknown"
                   ELSE item.location,
    coords     |-> IF strategy \in {"html", "cards"} THEN LIVERPOOL_COORDS
                   ELSE geocode_location(item.location),
    url        |-> item.url,
    year       |-> IF strategy \in {"html", "cards"} /\ YearSearch[item.year] = {}
                   THEN "Unknown" ELSE item.year,
    source     |-> scraper ]

\* seen / card_key of _parse_mui_cards: a card equal to an earlier one is dropped
FirstOccurrences(items) ==
  LET RECURSIVE Loop(_, _)
      Loop(i, kept) ==
        IF i > Len(items) THEN kept
        ELSE IF \E j \in DOMAIN kept : kept[j] = items[i]
             THEN Loop(i + 1, kept)
             ELSE Loop(i + 1, Append(kept, items[i]))
  IN  Loop(1, << >>)

\* A strategy that gives up at the first element that is not an object
parse_until_malformed(scraper, strategy, model_type, items, created) ==
  LET RECURSIVE Sound(_)
      Sound(i) == IF i > Len(items) \/ ~items[i].dict THEN i - 1 ELSE Sound(i + 1)
      accepted == SelectSeq(SubSeq(items, 1, Sound(1)),
                            LAMBDA item : accepts(scraper, strategy, model_type, item))
  IN  [i \in DOMAIN accepted |->
         CarListing(listing_data(scraper, strategy, model_type, accepted[i]), created + i)]

\* One extraction strategy on the elements it finds; created counts the
\* listings the run has built so far.
parse(scraper, strategy, model_type, items, created) ==
  LET processed == IF strategy = "apollo" THEN items
                   ELSE IF strategy = "cards" THEN First(items, MaxCards)
                   ELSE First(items, MaxItems)
      accepted  == SelectSeq(processed,
                             LAMBDA item : accepts(scraper, strategy, model_type, item))
      kept      == IF strategy = "cards" THEN FirstOccurrences(accepted) ELSE accepted
  IN  [i \in DOMAIN kept |->
         CarListing(listing_data(scraper, strategy, model_type, kept[i]), created + i)]

\* What one call of search does: the listings it returns, the strategies it
\* ran, the HTTP requests it issued, and whether it raised to its caller
Result(listings, ran, requests) ==
  [listings |-> listings, ran |-> ran, requests |-> requests, raised |-> FALSE]

\* A search that issues the auxiliary request whatever the page holds
AutoTraderScraper_search_eager(model_type, search_term, page, created) ==
  IF page.status # "ok" THEN Result(<< >>, << >>, <<"primary">>)
  ELSE Result(parse("AutoTrader", "next_data", model_type, page.embedded, created),
              <<"next_data", "api">>, <<"primary", "auxiliary">>)

\* AutoTraderScraper.search.  _parse_next_data and _try_next_data_api catch
\* what a container of the wrong type raises and yield nothing;
\* _parse_script_listings does not: what it raises ends search, which
\* returns the empty list it holds.
AutoTraderScraper_search(model_type, search_term, page, created) ==
  IF page.status # "ok" THEN Result(<< >>, << >>, <<"primary">>)
  ELSE
    LET next_data == IF "next_data" \in page.broken THEN << >>
                     ELSE parse("AutoTrader", "next_data", model_type, page.embedded, created)
        api       == IF page.build_id /\ page.api_status = "ok" /\ "api" \notin page.broken
                     THEN parse("AutoTrader", "api", model_type, page.api, created)
                     ELSE << >>
        script    == parse("AutoTrader", "script", model_type, page.script, created)
        html      == parse("AutoTrader", "html", model_type, page.html, created)
        ran2      == IF page.build_id THEN <<"next_data", "api">> ELSE <<"next_data">>
        requests2 == IF page.build_id THEN <<"primary", "auxiliary">> ELSE <<"primary">>
    IN  IF next_data # << >> THEN Result(next_data, <<"next_data">>, <<"primary">>)
        ELSE IF api # << >> THEN Result(api, ran2, requests2)
        ELSE IF "script" \in page.broken THEN Result(<< >>, ran2 \o <<"script">>, requests2)
        ELSE IF script # << >> THEN Result(script, ran2 \o <<"script">>, requests2)
        ELSE Result(html, ran2 \o <<"script", "html">>, requests2)

\* A search that lets the exception of a failed request reach its caller
GumtreeScraper_search_uncaught(model_type, search_term, page, created) ==
  IF page.status # "ok"
  THEN [Result(<< >>, << >>, <<"primary">>) EXCEPT !.raised = TRUE]
  ELSE Result(parse("Gumtree", "json", model_type, page.embedded, created),
              <<"json">>, <<"primary">>)

\* GumtreeScraper.search.  What _parse_json_listings raises on a container
\* of the wrong type ends search, which returns the empty list it holds.
GumtreeScraper_search(model_type, search_term, page, created) ==
  IF page.status # "ok" THEN Result(<< >>, << >>, <<"primary">>)
  ELSE
    LET json == parse("Gumtree", "json", model_type, page.embedded, created)
        html == parse("Gumtree", "html", model_type, page.html, created)
    IN  IF "json" \in page.broken THEN Result(<< >>, <<"json">>, <<"primary">>)
        ELSE IF json # << >> THEN Result(json, <<"json">>, <<"primary">>)
        ELSE Result(html, <<"json", "html">>, <<"primary">>)

\* PistonHeadsScraper.search.  What _parse_apollo_adverts raises on a
\* container of the wrong type ends search, which returns the empty list
\* it holds.
PistonHeadsScraper_search(model_type, search_term, page, created) ==
  IF page.status # "ok" THEN Result(<< >>, << >>, <<"primary">>)
  ELSE
    LET apollo == parse("PistonHeads", "apollo", model_type, page.embedded, created)
        cards  == parse("PistonHeads", "cards", model_type, page.html, created)
    IN  IF "apollo" \in page.broken THEN Result(<< >>, <<"apollo">>, <<"primary">>)
        ELSE IF apollo # << >> THEN Result(apollo, <<"apollo">>, <<"primary">>)
        ELSE Result(cards, <<"apollo", "cards">>, <<"primary">>)

\* scraper.search(model_type, search_term) on the response the marketplace gives
search(scraper, model_type, search_term, page, created) ==
  IF scraper = "AutoTrader" THEN AutoTraderScraper_search(model_type, search_term, page, created)
  ELSE IF scraper = "Gumtree" THEN GumtreeScraper_search(model_type, search_term, page, created)
  ELSE PistonHeadsScraper_search(model_type, search_term, page, created)

\* A response: status is "fault" for a timeout, a connection error or a
\* non-success HTTP status; embedded, script and html are the elements the
\* strategies find in the page; build_id tells whether the page holds a build
\* token; api_status and api are the auxiliary response; broken holds the
\* strategies whose data is of another type than the list or object the
\* strategy iterates.
Page(embedded) ==
  [status |-> "ok", embedded |-> embedded, build_id |-> FALSE,
   api_status |-> "ok", api |-> << >>, script |-> << >>, html |-> << >>,
   broken |-> {}]

FaultPage == [Page(<< >>) EXCEPT !.status = "fault"]

\* The responses a call can get in a run
Pages(budget) ==
  {Page(items) : items \in Responses(budget)} \cup
  (IF budget.faults > 0 THEN {FaultPage} ELSE {})

(***************************************************************************)
(* The application: POST /api/scrape and run_scraper_background            *)
(***************************************************************************)
NoFinder == [all_listings |-> << >>, profitable_deals |-> << >>]

NoFrame == [model_idx |-> 0, scraper_idx |-> 0, completed |-> 0,
            listings |-> << >>, created |-> 0, calls |-> << >>, paused |-> FALSE]

\* One adapter call of a run, as search_all sees it; paused tells whether
\* time.sleep has been called since the call before it
Call(model_type, scraper, search_term, page, result, paused) ==
  [model_type |-> model_type, scraper |-> scraper, search_term |-> search_term,
   paused |-> paused,
   fault |-> page.status # "ok", raised |-> result.raised,
   returned |-> Len(result.listings), listings |-> result.listings]

Init ==
  /\ scraper_status = [running |-> FALSE, last_run |-> {}, error |-> {},
                       progress |-> 0, current_action |-> "", action_log |-> << >>]
  /\ latest_deals = << >>
  /\ response = "none"
  /\ thread = [t \in Threads |-> [pc |-> "idle", use_demo |-> FALSE, failed |-> FALSE]]
  /\ finder = [t \in Threads |-> NoFinder]
  /\ frame = [t \in Threads |-> NoFrame]
  /\ monitor = [t \in Threads |-> [pc |-> "idle", deals |-> << >>]]
  /\ env \in Scenarios
  /\ built = << >>
  /\ verdict = "none"
  /\ called = << >>
  /\ priced = << >>

\* A rejection that answers 409 and still starts a thread
run_scrape_rejected_but_queued ==
  /\ scraper_status.running
  /\ response' = "already_running"
  /\ \E t \in Threads :
       /\ thread[t].pc = "idle"
       /\ thread' = [thread EXCEPT ![t] = [pc |-> "start", use_demo |-> TRUE, failed |-> FALSE]]
  /\ UNCHANGED <<priced, called, built, verdict, scraper_status, latest_deals, finder, frame, monitor, env>>

\* run_scrape, when a run is running: 409
run_scrape_rejected ==
  /\ scraper_status.running
  /\ response' = "already_running"
  /\ UNCHANGED <<priced, called, built, verdict, scraper_status, latest_deals, thread, finder, frame, monitor, env>>

\* run_scrape, otherwise: a new thread is started on run_scraper_background
run_scrape_started(use_demo) ==
  /\ ~scraper_status.running
  /\ env.starts > 0
  /\ use_demo \/ env.live > 0
  /\ \E t \in Threads :
       /\ thread[t].pc = "idle"
       /\ \A u \in Threads : thread[u].pc = "idle" => t <= u
       /\ thread' = [thread EXCEPT ![t] = [pc |-> "start", use_demo |-> use_demo,
                                                  failed |-> FALSE]]
  /\ response' = "started"
  /\ env' = [env EXCEPT !.starts = @ - 1, !.live = IF use_demo THEN @ ELSE @ - 1]
  /\ UNCHANGED <<priced, called, built, verdict, scraper_status, latest_deals, finder, frame, monitor>>

\* POST /api/scrape
run_scrape ==
  \/ run_scrape_rejected
  \/ \E use_demo \in BOOLEAN : run_scrape_started(use_demo)

\* run_scraper_background, lines 82-91
RunInit(t) ==
  /\ thread[t].pc = "start"
  /\ scraper_status' =
       log_action([scraper_status EXCEPT !.running = TRUE, !.error = {},
                     !.progress = 0, !.current_action = "Initializing...",
                     !.action_log = << >>],
                  Msg("Starting Car Arbitrage Scraper..."))
  /\ latest_deals' = << >>
  /\ finder' = [finder EXCEPT ![t] = NoFinder]
  /\ thread' = [thread EXCEPT ![t].pc = IF thread[t].use_demo THEN "demo" ELSE "live"]
  /\ UNCHANGED <<priced, called, built, verdict, response, frame, monitor, env>>

\* run_scraper_background, line 95: the sample listings that are profitable
demo_profitable_deals == SelectSeq(create_sample_data, is_profitable)

\* A demo run that publishes its deals in the order of the samples
demo_deals_unsorted == published_unsorted(demo_profitable_deals)

\* run_scraper_background, line 96: the list the demo run publishes
demo_deals == published(demo_profitable_deals)

\* run_scraper_background, lines 93-98: the demo run
RunDemo(t) ==
  /\ thread[t].pc = "demo"
  /\ finder' = [finder EXCEPT ![t].profitable_deals = demo_profitable_deals]
  /\ latest_deals' = demo_deals
  /\ scraper_status' =
       log_action([log_action(scraper_status, Msg("Running in DEMO mode with sample data"))
                     EXCEPT !.progress = 100],
                  Msg("Demo complete - deals loaded"))
  /\ thread' = [thread EXCEPT ![t].pc = "export"]
  /\ UNCHANGED <<priced, called, built, verdict, response, frame, monitor, env>>

\* run_scraper_background, lines 100-110: the monitor thread is started
StartMonitor(t) ==
  /\ thread[t].pc = "live"
  /\ monitor' = [monitor EXCEPT ![t] = [pc |-> "loop", deals |-> << >>]]
  /\ thread' = [thread EXCEPT ![t].pc = "search_all"]
  /\ UNCHANGED <<priced, called, built, verdict, scraper_status, latest_deals, response, finder, frame, env>>

\* monitor, lines 101-104: the loop test and the list built from
\* finder.profitable_deals; the wait when there is nothing to publish
MonitorLoop(t) ==
  /\ monitor[t].pc = "loop"
  /\ monitor' = [monitor EXCEPT ![t] =
       IF ~scraper_status.running THEN [pc |-> "exit", deals |-> << >>]
       ELSE IF finder[t].profitable_deals # << >>
            THEN [pc |-> "store", deals |-> published(finder[t].profitable_deals)]
            ELSE @]
  /\ UNCHANGED <<priced, called, built, verdict, scraper_status, latest_deals, response, thread, finder, frame, env>>

\* monitor, line 104: latest_deals[:] = ...; then the wait
MonitorStore(t) ==
  /\ monitor[t].pc = "store"
  /\ latest_deals' = monitor[t].deals
  /\ monitor' = [monitor EXCEPT ![t] = [pc |-> "loop", deals |-> << >>]]
  /\ UNCHANGED <<priced, called, built, verdict, scraper_status, response, thread, finder, frame, env>>

(***************************************************************************)
(* CarArbitrageFinder.search_all                                           *)
(***************************************************************************)
total_searches == Len(Models) * Len(scrapers)

\* int((completed / total_searches) * 100)
progress_pct(completed) == (completed * 100) \div total_searches

\* lines 1100-1103
SearchAllBegin(t) ==
  /\ thread[t].pc = "search_all"
  /\ frame' = [frame EXCEPT ![t] = [NoFrame EXCEPT !.model_idx = 1]]
  /\ scraper_status' = log_action(scraper_status, Msg("Starting scraper"))
  /\ thread' = [thread EXCEPT ![t].pc = "model"]
  /\ UNCHANGED <<priced, called, built, verdict, latest_deals, response, finder, monitor, env>>

\* lines 1105-1109: the next model of the catalog
ModelBegin(t) ==
  /\ thread[t].pc = "model"
  /\ frame' = [frame EXCEPT ![t].scraper_idx = 1]
  /\ scraper_status' = log_action(scraper_status, Msg("Searching for model"))
  /\ thread' = [thread EXCEPT ![t].pc = "search"]
  /\ UNCHANGED <<priced, called, built, verdict, latest_deals, response, finder, monitor, env>>

\* A pair that is counted twice
except_pair_twice(fr) ==
  LET last == fr.scraper_idx = Len(scrapers)
  IN  [fr EXCEPT !.completed = @ + 2,
                 !.listings = << >>,
                 !.scraper_idx = IF last THEN 0 ELSE @ + 1,
                 !.model_idx = IF last THEN @ + 1 ELSE @]

\* lines 1138 and 1152: the pair is counted as completed, on the normal
\* path and in the except clause alike; the loops advance
except_pair(fr) ==
  LET last == fr.scraper_idx = Len(scrapers)
  IN  [fr EXCEPT !.completed = @ + 1,
                 !.listings = << >>,
                 !.scraper_idx = IF last THEN 0 ELSE @ + 1,
                 !.model_idx = IF last THEN @ + 1 ELSE @]

\* Where the run goes after the pair at fr
after_pair(fr) ==
  IF fr.scraper_idx < Len(scrapers) THEN "search"
  ELSE IF fr.model_idx < Len(Models) THEN "model" ELSE "dedup"

\* A second call for any source that returned few listings
needs_alternate_any_source(scraper, listings, config) ==
  Len(listings) < 5 /\ Len(config.search_terms) > 1

\* line 1121: whether the pair gets a second call
needs_alternate(scraper, listings, config) ==
  scraper = "Gumtree" /\ Len(listings) < 5 /\ Len(config.search_terms) > 1

\* lines 1112-1121: the primary call of a (model, source) pair
PairSearch(t) ==
  /\ thread[t].pc = "search"
  /\ LET model_type  == Models[frame[t].model_idx]
         config      == TARGET_CARS[model_type]
         scraper     == scrapers[frame[t].scraper_idx]
         search_term == config.search_terms[1]
     IN  \E page \in Pages(env) :
           LET result   == search(scraper, model_type, search_term, page, frame[t].created)
               listings == result.listings
               call     == Call(model_type, scraper, search_term, page, result,
                                frame[t].paused)
               searching == log_action(scraper_status, Msg("Searching"))
           IN  /\ env' = [env EXCEPT !.ads = @ - Len(page.embedded),
                                     !.faults = IF page.status = "ok" THEN @ ELSE @ - 1]
               /\ IF result.raised
                  THEN /\ frame' = [frame EXCEPT ![t] =
                                      [except_pair(@) EXCEPT !.calls = Append(@, call),
                                                             !.paused = FALSE]]
                       /\ scraper_status' = log_action(searching,
                            MsgPct("Error", progress_pct(frame[t].completed + 1)))
                       /\ thread' = [thread EXCEPT ![t].pc = after_pair(frame[t])]
                  ELSE /\ frame' = [frame EXCEPT ![t].listings = listings,
                                                 ![t].created = @ + Len(listings),
                                                 ![t].calls = Append(@, call),
                                                 ![t].paused = FALSE]
                       /\ scraper_status' = searching
                       /\ thread' = [thread EXCEPT ![t].pc =
                            IF needs_alternate(scraper, listings, config)
                            THEN "alt" ELSE "collect"]
  /\ UNCHANGED <<priced, called, built, verdict, latest_deals, response, finder, monitor>>

\* A merge that does not record the URLs it adds
merge_alt_forgetful(listings, alt_listings) ==
  LET existing_urls == {listings[i].url : i \in DOMAIN listings} \ {""}
  IN  listings \o SelectSeq(alt_listings,
                            LAMBDA l : l.url = "" \/ l.url \notin existing_urls)

\* lines 1127-1131: the listings of the second call whose URL is new
merge_alt(listings, alt_listings) ==
  LET RECURSIVE Loop(_, _, _)
      Loop(i, merged, existing_urls) ==
        IF i > Len(alt_listings) THEN merged
        ELSE LET l == alt_listings[i]
             IN  IF l.url = "" \/ l.url \notin existing_urls
                 THEN Loop(i + 1, Append(merged, l), existing_urls \cup {l.url})
                 ELSE Loop(i + 1, merged, existing_urls)
  IN  Loop(1, listings, {listings[i].url : i \in DOMAIN listings} \ {""})

\* lines 1122-1131: the pause and the supplementary Gumtree call
PairAlt(t) ==
  /\ thread[t].pc = "alt"
  /\ LET model_type == Models[frame[t].model_idx]
         config     == TARGET_CARS[model_type]
         scraper    == scrapers[frame[t].scraper_idx]
         alt_term   == config.search_terms[2]
     IN  \E page \in Pages(env) :
           LET result       == search(scraper, model_type, alt_term, page, frame[t].created)
               alt_listings == result.listings
               call         == Call(model_type, scraper, alt_term, page, result, TRUE)
               trying       == log_action(scraper_status, Msg("Trying alternate term"))
           IN  /\ env' = [env EXCEPT !.ads = @ - Len(page.embedded),
                                     !.faults = IF page.status = "ok" THEN @ ELSE @ - 1]
               /\ IF result.raised
                  THEN /\ frame' = [frame EXCEPT ![t] =
                                      [except_pair(@) EXCEPT !.calls = Append(@, call),
                                                             !.paused = FALSE]]
                       /\ scraper_status' = log_action(trying,
                            MsgPct("Error", progress_pct(frame[t].completed + 1)))
                       /\ thread' = [thread EXCEPT ![t].pc = after_pair(frame[t])]
                  ELSE /\ frame' = [frame EXCEPT
                                      ![t].listings = merge_alt(@, alt_listings),
                                      ![t].created = @ + Len(alt_listings),
                                      ![t].calls = Append(@, call),
                                      ![t].paused = FALSE]
                       /\ scraper_status' = trying
                       /\ thread' = [thread EXCEPT ![t].pc = "collect"]
  /\ UNCHANGED <<priced, called, built, verdict, latest_deals, response, finder, monitor>>

\* lines 1133-1154: the listings of the pair are collected and evaluated,
\* progress is reported, the run pauses, and the loops advance; when
\* is_profitable raises on a listing, the except clause reports the pair
\* instead.
PairCollect(t) ==
  /\ thread[t].pc = "collect"
  /\ LET listings   == frame[t].listings
         raised     == \E i \in DOMAIN listings : title_lower_raises(listings[i])
         profitable == SelectSeq(listings, is_profitable)
         completed  == frame[t].completed + 1
         pct        == progress_pct(completed)
     IN  IF raised
         THEN /\ finder' = [finder EXCEPT ![t].all_listings = @ \o listings]
              /\ scraper_status' = log_action(scraper_status, MsgPct("Error", pct))
              /\ frame' = [frame EXCEPT ![t] = except_pair(@)]
         ELSE /\ finder' = [finder EXCEPT
                              ![t].all_listings = @ \o listings,
                              ![t].profitable_deals = @ \o profitable]
              /\ scraper_status' = log_action(scraper_status,
                   IF profitable # << >> THEN MsgPct("Found deals!", pct)
                   ELSE IF listings # << >> THEN MsgPct("listings, none profitable", pct)
                   ELSE MsgPct("No results", pct))
              /\ frame' = [frame EXCEPT ![t] = [except_pair(@) EXCEPT !.paused = TRUE]]
  /\ thread' = [thread EXCEPT ![t].pc = after_pair(frame[t])]
  /\ UNCHANGED <<priced, called, built, verdict, latest_deals, response, monitor, env>>

\* lines 1156-1168: the final de-duplication
Dedup(t) ==
  /\ thread[t].pc = "dedup"
  /\ finder' = [finder EXCEPT ![t].profitable_deals = unique_deals(@)]
  /\ scraper_status' = log_action(scraper_status, Msg("Complete!"))
  /\ thread' = [thread EXCEPT ![t].pc = "publish"]
  /\ UNCHANGED <<priced, called, built, verdict, latest_deals, response, frame, monitor, env>>

\* run_scraper_background, lines 114-116: the result of the live run
Publish(t) ==
  /\ thread[t].pc = "publish"
  /\ latest_deals' = published(finder[t].profitable_deals)
  /\ scraper_status' = log_action([scraper_status EXCEPT !.progress = 100],
                                  Msg("Scraping complete - deals found"))
  /\ thread' = [thread EXCEPT ![t].pc = "export"]
  /\ UNCHANGED <<priced, called, built, verdict, response, finder, frame, monitor, env>>

\* run_scraper_background, lines 118-124: the report files and last_run
Export(t) ==
  /\ thread[t].pc = "export"
  /\ scraper_status' = [scraper_status EXCEPT !.last_run = {t}]
  /\ thread' = [thread EXCEPT ![t].pc = "finally"]
  /\ UNCHANGED <<priced, called, built, verdict, latest_deals, response, finder, frame, monitor, env>>

\* run_scraper_background, lines 118-122: os.makedirs or an export raises
ExportRaises(t) ==
  /\ thread[t].pc = "export"
  /\ env.crashes > 0
  /\ env' = [env EXCEPT !.crashes = @ - 1]
  /\ thread' = [thread EXCEPT ![t].pc = "except"]
  /\ UNCHANGED <<priced, called, built, verdict, scraper_status, latest_deals, response, finder, frame, monitor>>

\* A handler that reports the run as completed
Except_completing(t) ==
  /\ thread[t].pc = "except"
  /\ scraper_status' = [scraper_status EXCEPT !.last_run = {t}]
  /\ thread' = [thread EXCEPT ![t].pc = "finally"]
  /\ UNCHANGED <<priced, called, built, verdict, latest_deals, response, finder, frame, monitor, env>>

\* run_scraper_background, lines 126-129: the except clause
Except(t) ==
  /\ thread[t].pc = "except"
  /\ scraper_status' = log_action([scraper_status EXCEPT !.error = {"OSError"}],
                                  Msg("ERROR: OSError"))
  /\ thread' = [thread EXCEPT ![t].pc = "finally", ![t].failed = TRUE]
  /\ UNCHANGED <<priced, called, built, verdict, latest_deals, response, finder, frame, monitor, env>>

\* A run that ends without resetting running
Finally_still_running(t) ==
  /\ thread[t].pc = "finally"
  /\ thread' = [thread EXCEPT ![t].pc = "done"]
  /\ UNCHANGED <<priced, called, built, verdict, scraper_status, latest_deals, response, finder, frame, monitor, env>>

\* run_scraper_background, lines 130-131
Finally(t) ==
  /\ thread[t].pc = "finally"
  /\ scraper_status' = [scraper_status EXCEPT !.running = FALSE]
  /\ thread' = [thread EXCEPT ![t].pc = "done"]
  /\ UNCHANGED <<priced, called, built, verdict, latest_deals, response, finder, frame, monitor, env>>

(***************************************************************************)
(* CarListing and is_profitable on their own: a listing is built from any  *)
(* model key, title, price, position and year of the sets below, then      *)
(* is_profitable is called on it.                                          *)
(***************************************************************************)
ListingModels == DOMAIN TARGET_CARS \cup {"unknown_model"}

ListingTitles == {"BMW 330i Sport", "Honda Civic Type R", "WANTED BMW 330i",
                  "BMW 330i Touring", "Civic Type R FN2",
                  "Wanted: X model, any condition"}

ListingPrices == {-4000, 0, 1, 4000, 5000, 5001, 12000, 13000}

ListingCoords == {LIVERPOOL_COORDS, <<531908, -28908>>, <<585936, -35221>>}

ListingYears == {"2003", "2008", "Unknown"}

ListingData ==
  [ model_type : ListingModels, title : ListingTitles, price : ListingPrices,
    location : {""}, coords : ListingCoords, url : {"https://ads.example/1"},
    year : ListingYears, source : {"Gumtree"} ]

\* listing = CarListing(data)
BuildListing ==
  /\ env.listings > 0
  /\ \E data \in ListingData : built' = <<CarListing(data, 1)>>
  /\ env' = [env EXCEPT !.listings = @ - 1]
  /\ UNCHANGED <<priced, called, verdict, scraper_status, latest_deals, response, thread, finder, frame, monitor>>

\* listing.is_profitable()
CallIsProfitable ==
  /\ built # << >>
  /\ verdict = "none"
  /\ verdict' = IF is_profitable(built[1]) THEN "True" ELSE "False"
  /\ UNCHANGED <<priced, called, built, scraper_status, latest_deals, response, thread, finder, frame, monitor, env>>

(***************************************************************************)
(* One adapter call on its own: search of any adapter, for the first model *)
(* of the run, on a response whose strategies find the elements below.     *)
(***************************************************************************)
\* Elements of a response: two advertisements, one with the price as a
\* string with a pound sign, one with a negative price, one with price 0,
\* one with a price that is no number, one without price, and one element
\* that is not an object.
LabAd == [dict |-> TRUE, title |-> "Honda Civic Type R", price |-> "6500",
          location |-> "Manchester", url |-> "https://ads.example/1", year |-> "2003"]

LabElements ==
  { LabAd,
    [LabAd EXCEPT !.title = "BMW 330i Sport", !.price = "4000", !.url = "https://ads.example/2"],
    [LabAd EXCEPT !.price = "{pound}4,000", !.url = "https://ads.example/3"],
    [LabAd EXCEPT !.price = "-4000", !.url = "https://ads.example/4"],
    [LabAd EXCEPT !.price = "0", !.url = "https://ads.example/5"],
    [LabAd EXCEPT !.price = "POA", !.url = "https://ads.example/6"],
    [LabAd EXCEPT !.price = "", !.url = "https://ads.example/7"],
    [LabAd EXCEPT !.dict = FALSE, !.url = "https://ads.example/8"] }

\* What one strategy can find: up to MaxAds elements
LabPayloads == UNION {[1..k -> LabElements] : k \in 0..MaxAds}

\* What the other strategies find: nothing, or one advertisement (in the
\* text of an HTML element its price has a pound sign)
LabOthers == {<< >>, <<[LabAd EXCEPT !.url = "https://ads.example/9"]>>}

InHtml(elements) ==
  [i \in DOMAIN elements |-> [elements[i] EXCEPT !.price = "{pound}4,000"]]

\* The responses: a transport fault, or a page in which the strategy at
\* position `at` of the adapter finds payload and every other strategy finds
\* other; with or without build token, with or without auxiliary fault;
\* with sound data, or with data of the wrong type for the strategies that
\* catch what it raises, or for those that do not
LabBroken == {{}, {"next_data", "api"}, {"script", "json", "apollo"}}

LabPage(payload, at, other, build_id, api_status, broken) ==
  [status |-> "ok",
   broken |-> broken,
   embedded |-> IF at = 1 THEN payload ELSE other,
   build_id |-> build_id,
   api_status |-> api_status,
   api |-> IF at = 2 THEN payload ELSE other,
   script |-> IF at = 3 THEN payload ELSE other,
   html |-> IF at = 4 THEN payload ELSE InHtml(other)]

LabPages ==
  {FaultPage} \cup
  {LabPage(payload, at, other, build_id, api_status, broken) :
     payload \in LabPayloads, at \in 1..4, other \in LabOthers,
     build_id \in BOOLEAN, api_status \in {"ok", "fault"}, broken \in LabBroken}

\* scraper.search(model_type, search_term)
CallSearch ==
  /\ env.pages > 0
  /\ \E i \in DOMAIN scrapers, page \in LabPages :
       LET model_type == Models[1]
           search_term == TARGET_CARS[model_type].search_terms[1]
       IN  called' = <<[scraper |-> scrapers[i], model_type |-> model_type, page |-> page,
                        result |-> search(scrapers[i], model_type, search_term, page, 0)]>>
  /\ env' = [env EXCEPT !.pages = @ - 1]
  /\ UNCHANGED <<priced, built, verdict, scraper_status, latest_deals, response, thread, finder, frame, monitor>>

(***************************************************************************)
(* extract_price on its own: a price text is a sequence of characters,     *)
(* {pound} standing for the pound sign.                                    *)
(***************************************************************************)
\* Longest price text
MaxPriceLen == 4

PriceChars == {"{pound}", ",", " ", "0", "4", "7", "-", ".", "k"}

\* \d
Digits == {"0", "4", "7"}

DigitValue == ("0" :> 0) @@ ("4" :> 4) @@ ("7" :> 7)

PriceTexts == UNION {[1..n -> PriceChars] : n \in 0..MaxPriceLen}

\* int(match.group())
int(digits) ==
  LET RECURSIVE Value(_, _)
      Value(i, acc) ==
        IF i > Len(digits) THEN acc
        ELSE Value(i + 1, acc * 10 + DigitValue[digits[i]])
  IN  Value(1, 0)

\* re.search(r'\d+', price_str): the first longest run of digits, none if
\* there is no digit
re_search_digits(price_str) ==
  LET RECURSIVE Run(_, _)
      \* the run that starts at i, found so far
      Run(i, acc) ==
        IF i <= Len(price_str) /\ price_str[i] \in Digits
        THEN Run(i + 1, Append(acc, price_str[i]))
        ELSE acc
      RECURSIVE Scan(_)
      Scan(i) ==
        IF i > Len(price_str) THEN {}
        ELSE IF price_str[i] \in Digits THEN {Run(i, << >>)}
             ELSE Scan(i + 1)
  IN  Scan(1)

\* A substitution that leaves the commas in
re_sub_keeps_commas(price_str) == SelectSeq(price_str, LAMBDA c : c \notin {"{pound}", " "})

\* re.sub(r'[{pound},\s]', '', str(price_str))
re_sub(price_str) == SelectSeq(price_str, LAMBDA c : c \notin {"{pound}", ",", " "})

\* extract_price(price_str), lines 144-150
extract_price_of(price_str) ==
  IF price_str = << >> THEN 0
  ELSE LET match == re_search_digits(re_sub(price_str))
       IN  IF match # {} THEN int(CHOOSE m \in match : TRUE) ELSE 0

\* extract_price(price_str)
CallExtractPrice ==
  /\ env.texts > 0
  /\ \E price_str \in PriceTexts : priced' = <<price_str, extract_price_of(price_str)>>
  /\ env' = [env EXCEPT !.texts = @ - 1]
  /\ UNCHANGED <<called, built, verdict, scraper_status, latest_deals, response, thread, finder, frame, monitor>>

Next ==
  \/ run_scrape
  \/ \E t \in Threads : RunInit(t)
  \/ \E t \in Threads : RunDemo(t)
  \/ \E t \in Threads : StartMonitor(t)
  \/ \E t \in Threads : MonitorLoop(t)
  \/ \E t \in Threads : MonitorStore(t)
  \/ \E t \in Threads : SearchAllBegin(t)
  \/ \E t \in Threads : ModelBegin(t)
  \/ \E t \in Threads : PairSearch(t)
  \/ \E t \in Threads : PairAlt(t)
  \/ \E t \in Threads : PairCollect(t)
  \/ \E t \in Threads : Dedup(t)
  \/ \E t \in Threads : Publish(t)
  \/ \E t \in Threads : Export(t)
  \/ \E t \in Threads : ExportRaises(t)
  \/ \E t \in Threads : Except(t)
  \/ \E t \in Threads : Finally(t)
  \/ BuildListing
  \/ CallIsProfitable
  \/ CallSearch
  \/ CallExtractPrice

Spec == Init /\ [][Next]_vars

\* The steps of run thread t
RunStep(t) ==
  \/ RunInit(t) \/ RunDemo(t) \/ StartMonitor(t) \/ SearchAllBegin(t)
  \/ ModelBegin(t) \/ PairSearch(t) \/ PairAlt(t) \/ PairCollect(t) \/ Dedup(t)
  \/ Publish(t) \/ Export(t) \/ Except(t) \/ Finally(t)

\* The environments of the runs whose termination is checked: every one with
\* a start request whose advertisements, MaxAds at most, are served together
LiveScenarios == {e \in Scenarios :
                    e.starts > 0 /\ e.ads <= MaxAds /\ e.sizes \subseteq {0, e.ads}}

LiveInit == Init /\ env \in LiveScenarios

\* The requests, the run threads and their monitors
LiveNext ==
  \/ run_scrape
  \/ \E t \in Threads : RunStep(t)
  \/ \E t \in Threads : ExportRaises(t)
  \/ \E t \in Threads : MonitorLoop(t)
  \/ \E t \in Threads : MonitorStore(t)

\* A started thread is scheduled again and again, and an adapter call
\* returns (its requests have timeouts)
LiveSpec == LiveInit /\ [][LiveNext]_vars /\ \A t \in Threads : WF_vars(RunStep(t))

(***************************************************************************)
(* Properties: starting a run                                              *)
(***************************************************************************)
\* The runs whose thread has entered run_scraper_background and has not left it
Executing == {t \in Threads : thread[t].pc \notin {"idle", "start", "done"}}

\* C1: at most one run of run_scraper_background is executing at any time,
\* under any interleaving of start requests with the run threads.
AtMostOneRunExecuting == Cardinality(Executing) <= 1

\* C2: a start request made while scraper_status.running is true answers
\* "already_running", spawns no thread and changes neither scraper_status nor
\* latest_deals nor anything a later run could start from; a thread is only
\* ever spawned by a request that found running false and answered "started".
RejectedStartChangesNothing ==
  [][ /\ (scraper_status.running /\ response' # response) =>
           /\ response' = "already_running"
           /\ UNCHANGED <<scraper_status, latest_deals, thread, finder, frame, monitor>>
      /\ (\E t \in Threads : thread[t].pc = "idle" /\ thread'[t].pc # "idle") =>
           /\ ~scraper_status.running
           /\ response' = "started" ]_vars

\* C2: a request has been rejected while a run is running
StartRejectedWhileRunning ==
  /\ scraper_status.running
  /\ response = "already_running"

(***************************************************************************)
(* Properties: the final de-duplication of search_all                      *)
(***************************************************************************)
\* The step of run t in which the final de-duplication is applied
DedupStep(t) == thread[t].pc = "dedup" /\ thread'[t].pc = "publish"

\* The position of listing d in the sequence s
Pos(s, d) == CHOOSE k \in DOMAIN s : s[k] = d

\* No earlier listing of s has the URL of s[k]
FirstWithUrl(s, k) == \A j \in 1..(k - 1) : s[j].url # s[k].url

\* C3: after the final de-duplication, at most one listing of
\* profitable_deals has any given non-empty URL, the one that stays is the
\* one accumulated first with that URL, and the listings that stay keep the
\* order in which they were accumulated.
DedupKeepsFirstPerUrl ==
  [][ \A t \in Threads : DedupStep(t) =>
        LET old == finder[t].profitable_deals
            new == finder'[t].profitable_deals
        IN  /\ \A i, j \in DOMAIN new :
                 (i < j /\ new[i].url # "") => new[i].url # new[j].url
            /\ \A k \in DOMAIN old :
                 old[k].url # "" => ((old[k] \in Range(new)) <=> FirstWithUrl(old, k))
            /\ Range(new) \subseteq Range(old)
            /\ \A i, j \in DOMAIN new :
                 i < j => Pos(old, new[i]) < Pos(old, new[j]) ]_vars

\* C3: a run has de-duplicated two qualifying listings that share a
\* non-empty URL; the first is kept and the second is gone
DedupDroppedLaterDuplicate ==
  \E t \in Threads :
     /\ thread[t].pc = "publish"
     /\ \E i, j \in DOMAIN finder[t].all_listings :
          LET a == finder[t].all_listings[i]
              b == finder[t].all_listings[j]
          IN  /\ i < j
              /\ a.url # "" /\ a.url = b.url
              /\ is_profitable(a) /\ is_profitable(b)
              /\ a \in Range(finder[t].profitable_deals)
              /\ b \notin Range(finder[t].profitable_deals)

\* The listings of s that have no URL, in order
WithoutUrl(s) == SelectSeq(s, LAMBDA d : d.url = "")

\* C4: the final de-duplication removes no listing whose URL is empty: the
\* qualifying listings without URL are the same, in the same order, before
\* and after it, also when several have the same title and price.
DedupKeepsEmptyUrls ==
  [][ \A t \in Threads : DedupStep(t) =>
        WithoutUrl(finder'[t].profitable_deals) = WithoutUrl(finder[t].profitable_deals)
    ]_vars

\* C4: after the final de-duplication, two listings without URL that have
\* the same title and price are both in profitable_deals
TwoAlikeWithoutUrlKept ==
  \E t \in Threads :
     /\ thread[t].pc = "publish"
     /\ \E i, j \in DOMAIN finder[t].profitable_deals :
          LET a == finder[t].profitable_deals[i]
              b == finder[t].profitable_deals[j]
          IN  /\ i < j
              /\ a.url = "" /\ b.url = ""
              /\ a.title = b.title /\ a.price = b.price

\* C5: the final de-duplication is idempotent: on every list of qualifying
\* listings a run accumulates or holds, applying it to its own output gives
\* that output again.
DedupIdempotent ==
  \A t \in Threads :
     LET once == unique_deals(finder[t].profitable_deals)
     IN  unique_deals(once) = once

\* C5: a run holds a list that the de-duplication shortens
DedupShortensList ==
  \E t \in Threads :
     Len(unique_deals(finder[t].profitable_deals)) < Len(finder[t].profitable_deals)

(***************************************************************************)
(* Properties: the outbound result set                                     *)
(***************************************************************************)
SortedByNetProfit(deals) ==
  \A i \in 1..(Len(deals) - 1) : deals[i].net_profit >= deals[i + 1].net_profit

OnlyDeals(deals) == \A i \in DOMAIN deals : is_profitable(deals[i])

NoSharedUrl(deals) ==
  \A i, j \in DOMAIN deals :
     (i < j /\ deals[i].url # "") => deals[i].url # deals[j].url

\* The step in which run t stores its result: line 96 of a demo run, line
\* 114 of a live run
ResultStep(t) == thread[t].pc \in {"demo", "publish"} /\ thread'[t].pc = "export"

\* C6, as the specification states it: whenever latest_deals can be read it
\* is sorted by non-increasing net_profit, holds only listings for which
\* is_profitable holds, and holds no two entries with the same non-empty URL.
OutboundAlwaysDeduplicated ==
  /\ SortedByNetProfit(latest_deals)
  /\ OnlyDeals(latest_deals)
  /\ NoSharedUrl(latest_deals)

\* C6, amended: whenever latest_deals can be read it is sorted by
\* non-increasing net_profit and holds only listings for which is_profitable
\* holds; the list a run stores as its result holds no two entries with the
\* same non-empty URL, while a snapshot stored by the monitor thread may.
OutboundSortedAndResultDeduplicated ==
  /\ [](SortedByNetProfit(latest_deals) /\ OnlyDeals(latest_deals))
  /\ [][ \A t \in Threads : ResultStep(t) => NoSharedUrl(latest_deals') ]_vars

\* C6: during a live run the monitor thread has stored a snapshot in which
\* two entries have the same non-empty URL
SnapshotWithSharedUrl ==
  /\ \E t \in Threads : thread[t].pc \in {"model", "search", "alt", "collect", "dedup"}
  /\ ~NoSharedUrl(latest_deals)

(***************************************************************************)
(* Properties: CarListing and is_profitable                                *)
(***************************************************************************)
Known(l) == l.model_type \in DOMAIN TARGET_CARS

PriceCeiling(l) == IF Known(l) THEN TARGET_CARS[l.model_type].max_price ELSE 999999

ProfitFloor(l) == IF Known(l) THEN TARGET_CARS[l.model_type].min_profit ELSE 0

\* price > 0, price <= max_price, distance <= 300 miles, net_profit >= min_profit
FourConditions(l) ==
  /\ l.price > 0
  /\ l.price <= PriceCeiling(l)
  /\ l.distance <= 300 * 1000
  /\ l.net_profit >= ProfitFloor(l)

\* The title holds a buy-request word, an estate word, or a word the model excludes
TitleRejected(l) ==
  \/ AnyKeywordIn(wanted_keywords, lower[l.title])
  \/ AnyKeywordIn(estate_keywords, lower[l.title])
  \/ /\ Known(l)
     /\ "exclude_keywords" \in DOMAIN TARGET_CARS[l.model_type]
     /\ AnyKeywordIn(TARGET_CARS[l.model_type].exclude_keywords, lower[l.title])

\* The year text holds a year outside the range of the model
YearRejected(l) ==
  /\ Known(l)
  /\ "year_min" \in DOMAIN TARGET_CARS[l.model_type]
  /\ \E y \in YearSearch[l.year] :
        \/ y < TARGET_CARS[l.model_type].year_min
        \/ y > TARGET_CARS[l.model_type].year_max

\* C7, as the specification states it: is_profitable returns True for every
\* listing with price > 0, price <= max_price, distance <= MAX_DISTANCE_MILES
\* and net_profit >= min_profit.
FourConditionsSuffice ==
  (verdict # "none" /\ FourConditions(built[1])) => verdict = "True"

\* C7, amended: is_profitable returns True for every listing that meets the
\* four conditions and whose title holds no buy-request, estate or excluded
\* word and whose year is not a year outside the range of its model.
FourConditionsSufficeForCleanListing ==
  ( /\ verdict # "none"
    /\ FourConditions(built[1])
    /\ ~TitleRejected(built[1])
    /\ ~YearRejected(built[1]) ) => verdict = "True"

\* C7: is_profitable has returned True for a listing priced exactly at the
\* ceiling of its model
AcceptedAtPriceCeiling ==
  /\ verdict = "True"
  /\ built[1].price = PriceCeiling(built[1])
  /\ FourConditions(built[1])

\* C8: every listing is_profitable accepts, and every listing of
\* profitable_deals, meets the four conditions; a listing beyond the radius
\* or above the price ceiling is never a deal.
AcceptedMeetFourConditions ==
  /\ verdict = "True" => FourConditions(built[1])
  /\ \A t \in Threads : \A i \in DOMAIN finder[t].profitable_deals :
        FourConditions(finder[t].profitable_deals[i])

\* C8: is_profitable has returned False for a listing beyond the radius that
\* meets every other condition
RejectedBeyondRadius ==
  /\ verdict = "False"
  /\ built[1].distance > 300 * 1000
  /\ built[1].price > 0 /\ built[1].price <= PriceCeiling(built[1])
  /\ built[1].net_profit >= ProfitFloor(built[1])
  /\ ~TitleRejected(built[1]) /\ ~YearRejected(built[1])

\* Every CarListing of the state
Listings ==
  Range(built) \cup
  UNION {Range(finder[t].all_listings) \cup Range(frame[t].listings) : t \in Threads}

\* C9: a CarListing of a catalog model m with 0 < price <= m.max_price has
\* expected_ni_price = price + m.ni_markup and net_profit = m.ni_markup - 650,
\* whatever the price.
ProfitArithmetic ==
  \A l \in Listings :
     (Known(l) /\ 0 < l.price /\ l.price <= PriceCeiling(l)) =>
        /\ l.expected_ni_price = l.price + TARGET_CARS[l.model_type].ni_markup
        /\ l.net_profit = TARGET_CARS[l.model_type].ni_markup - 650

\* C9: a listing of a model with markup 2700 has been built at a price
\* within the ceiling and has net_profit 2050
Markup2700Gives2050 ==
  \E l \in Range(built) :
     /\ Known(l) /\ TARGET_CARS[l.model_type].ni_markup = 2700
     /\ l.price = 5000 /\ l.price <= PriceCeiling(l)
     /\ l.net_profit = 2050

\* margin = net_profit / price * 100, for a margin kept as a fraction
IsPercentage(margin, l) == margin.num * l.price = l.net_profit * 100 * margin.den

\* C10, as the specification states it: profit_margin is 0 exactly when
\* price = 0, and net_profit / price * 100 when price is not 0.
MarginZeroOnlyAtPriceZero ==
  \A l \in Range(built) :
     /\ l.profit_margin = Zero <=> l.price = 0
     /\ l.price # 0 => IsPercentage(l.profit_margin, l)

\* C10, amended: profit_margin is 0 exactly when price <= 0, and
\* net_profit / price * 100 when price > 0.
MarginZeroExactlyWithoutPositivePrice ==
  \A l \in Range(built) :
     /\ l.profit_margin = Zero <=> l.price <= 0
     /\ l.price > 0 => IsPercentage(l.profit_margin, l)

\* C10: a listing has been built with a negative price and has margin 0
NegativePriceHasMarginZero ==
  \E l \in Range(built) : l.price < 0 /\ l.profit_margin = Zero /\ l.net_profit # 0

(***************************************************************************)
(* Properties: the title and year heuristics of is_profitable              *)
(***************************************************************************)
BuyRequestMarkers == {"wanted", "looking for", "wtb", "want to buy", "searching for", "iso"}

\* The title holds a buy-request marker, in any letter case
IsBuyRequest(title) == KeywordsIn[lower[title]] \cap BuyRequestMarkers # {}

\* C12: a listing whose title holds a buy-request marker in any letter case
\* is never accepted by is_profitable and is never in profitable_deals or
\* latest_deals, whatever its price, distance and profit.
BuyRequestsNeverDeals ==
  /\ verdict = "True" => ~IsBuyRequest(built[1].title)
  /\ \A t \in Threads : \A i \in DOMAIN finder[t].profitable_deals :
        ~IsBuyRequest(finder[t].profitable_deals[i].title)
  /\ \A i \in DOMAIN latest_deals : ~IsBuyRequest(latest_deals[i].title)

\* C12: is_profitable has returned False for a listing titled in capitals
\* "WANTED ..." whose price, distance and profit meet the four conditions
CapitalWantedRejected ==
  /\ verdict = "False"
  /\ built[1].title = "WANTED BMW 330i"
  /\ IsBuyRequest(built[1].title)
  /\ FourConditions(built[1])
  /\ ~YearRejected(built[1])

\* The model of listing l has a year range
HasYearRange(l) ==
  /\ Known(l)
  /\ \/ "year_min" \in DOMAIN TARGET_CARS[l.model_type]
     \/ "year_max" \in DOMAIN TARGET_CARS[l.model_type]

\* C13: for a model with a year range, is_profitable rejects a listing whose
\* year text holds a 4-digit year outside the range, and when no year is
\* found in the year text it decides as for the same listing with a year
\* inside the range.
YearRangePolicy ==
  (verdict # "none" /\ HasYearRange(built[1])) =>
     /\ YearRejected(built[1]) => verdict = "False"
     /\ YearSearch[built[1].year] = {} =>
          (verdict = "True" <=>
             is_profitable([built[1] EXCEPT !.year = "2003"]))

\* C13: is_profitable has accepted a listing of a model with a year range
\* whose year text holds no year
UnknownYearAccepted ==
  /\ verdict = "True"
  /\ HasYearRange(built[1])
  /\ built[1].year = "Unknown"

(***************************************************************************)
(* Properties: the source adapters                                         *)
(***************************************************************************)
\* The prices, as a response writes them, that are numbers above 0
PositivePrices == {"4000", "6500", "25000", "{pound}4,000"}

\* Every element of a response, whatever strategy finds it
Elements(page) ==
  Range(page.embedded) \cup Range(page.api) \cup Range(page.script) \cup Range(page.html)

\* C11: no strategy of any adapter builds a CarListing from an element whose
\* price is zero, negative, missing or no number: every listing a call
\* returns comes from an element of the response with a price above 0; and
\* every listing of all_listings and profitable_deals has price > 0.
ListingsOnlyFromPositivePrices ==
  /\ \A c \in Range(called) : \A l \in Range(c.result.listings) :
        /\ l.price > 0
        /\ \E e \in Elements(c.page) :
              e.dict /\ e.url = l.url /\ e.price \in PositivePrices
  /\ \A t \in Threads :
        \A l \in Range(finder[t].all_listings) \cup Range(finder[t].profitable_deals) :
           l.price > 0

\* The elements a strategy of a page works on
Payload(page, strategy) ==
  IF strategy \in {"next_data", "json", "apollo"} THEN page.embedded
  ELSE IF strategy = "api" THEN page.api
  ELSE IF strategy = "script" THEN page.script
  ELSE page.html

\* The auxiliary strategy is not attempted on a page without build token
NotAttempted(page, strategy) == strategy = "api" /\ ~page.build_id

\* What strategy k of the adapter yields on the page of call c, by itself
Yield(c, k) ==
  LET strategy == strategies[c.scraper][k]
  IN  IF NotAttempted(c.page, strategy) THEN << >>
      ELSE IF strategy = "api" /\ c.page.api_status # "ok" THEN << >>
      ELSE IF strategy \in c.page.broken THEN << >>
      ELSE parse(c.scraper, strategy, c.model_type, Payload(c.page, strategy), 0)

\* The strategies of the adapter up to position k that are attempted
AttemptedUpTo(c, k) ==
  SelectSeq(SubSeq(strategies[c.scraper], 1, k),
            LAMBDA strategy : ~NotAttempted(c.page, strategy))

\* C14: search tries the strategies of its adapter in their fixed order and
\* returns exactly what the first strategy that yields a listing yields,
\* never a merge; no strategy after that one is run; when none yields a
\* listing the result is the empty list and nothing is raised.
FirstYieldingStrategyWins ==
  \A c \in Range(called) : c.page.status = "ok" =>
     LET n == Len(strategies[c.scraper])
         yielding == {k \in 1..n : Yield(c, k) # << >>}
     IN  /\ ~c.result.raised
         /\ \A k \in yielding :
              (\A j \in yielding : k <= j) =>
                 /\ c.result.listings = Yield(c, k)
                 /\ c.result.ran = AttemptedUpTo(c, k)
         /\ yielding = {} =>
              /\ c.result.listings = << >>
              /\ c.result.ran = AttemptedUpTo(c, n)

(***************************************************************************)
(* Properties: transport faults                                            *)
(***************************************************************************)
\* The auxiliary request of call c was issued and failed
AuxFault(c) ==
  /\ "auxiliary" \in Range(c.result.requests)
  /\ c.page.api_status # "ok"

\* The step in which run t ends
EndStep(t) == thread[t].pc = "finally" /\ thread'[t].pc = "done"

\* Every (model, source) pair has had its call in run t
EveryPairCalled(t) ==
  \A i \in DOMAIN Models, j \in DOMAIN scrapers :
     \E k \in DOMAIN frame[t].calls :
        /\ frame[t].calls[k].model_type = Models[i]
        /\ frame[t].calls[k].scraper = scrapers[j]

\* A live run ends with every pair called, running false and no error,
\* unless writing the report files has failed
RunEndsClean ==
  \A t \in Threads : (EndStep(t) /\ ~thread[t].use_demo /\ ~thread[t].failed) =>
     /\ EveryPairCalled(t)
     /\ ~scraper_status'.running
     /\ scraper_status'.error = {}

OnePrimaryAtMostOneAuxiliary ==
  \A c \in Range(called) :
     /\ c.result.requests \in {<<"primary">>, <<"primary", "auxiliary">>}
     /\ "auxiliary" \in Range(c.result.requests) =>
          /\ c.scraper = "AutoTrader"
          /\ c.page.status = "ok"
          /\ c.page.build_id
          /\ Yield(c, 1) = << >>

\* C16: a call of the AutoTrader adapter has issued the auxiliary request,
\* on a page with a build token whose embedded data gave no listing
AuxiliaryRequestIssued ==
  \E c \in Range(called) :
     /\ c.scraper = "AutoTrader"
     /\ c.result.requests = <<"primary", "auxiliary">>
     /\ c.page.build_id
     /\ c.page.embedded # << >>

(***************************************************************************)
(* Properties: malformed elements                                          *)
(***************************************************************************)
\* An element a strategy cannot read: it is not an object, or its price
\* field cannot be converted
Malformed(strategy, item) == ~item.dict \/ price_of(strategy, item) = {}

\* The elements among the processed ones that are well formed, have a price
\* above 0 and, for PistonHeads, pass the price ceiling and keyword filter
\* of the adapter
WellFormedPriced(c, strategy) ==
  LET items == Payload(c.page, strategy)
      processed == IF strategy = "apollo" THEN items
                   ELSE First(items, IF strategy = "cards" THEN MaxCards ELSE MaxItems)
  IN  SelectSeq(processed, LAMBDA item :
        /\ ~Malformed(strategy, item)
        /\ \A price \in price_of(strategy, item) :
              /\ price > 0
              /\ c.scraper = "PistonHeads" =>
                   /\ price <= TARGET_CARS[c.model_type].max_price
                   /\ AnyKeywordIn(model_keywords[c.model_type], lower[item.title]))

\* The strategy whose output call c returned
Returning(c) == c.result.ran[Len(c.result.ran)]

\* Call c returned the output of a strategy that read its elements (the
\* cards strategy, which also drops a card equal to an earlier one, is left
\* aside)
ReadElements(c) ==
  /\ c.page.status = "ok"
  /\ Returning(c) \notin c.page.broken
  /\ ~(Returning(c) = "api" /\ c.page.api_status # "ok")
  /\ Returning(c) # "cards"

PrimaryCalls(t) ==
  SelectSeq(frame[t].calls,
            LAMBDA c : c.search_term = TARGET_CARS[c.model_type].search_terms[1])

\* The sources in the order of CarArbitrageFinder.__init__
SourceOrder == <<"AutoTrader", "Gumtree", "PistonHeads">>

\* The k-th pair of a run: models in catalog order from the first one
\* searched, and for each model the sources in their order
PairModel(k) == TARGET_CARS_keys[4 + ((k - 1) \div Len(SourceOrder))]

PairSource(k) == SourceOrder[1 + ((k - 1) % Len(SourceOrder))]

\* Run t has left the loops of search_all
LoopsDone(t) ==
  /\ ~thread[t].use_demo
  /\ thread[t].pc \in {"dedup", "publish", "export", "except", "finally", "done"}

\* C18: in a run the calls with the first search term come in a stable
\* order, models in catalog order and for each model AutoTrader, Gumtree,
\* PistonHeads, each pair once; when the loops are done every pair has had
\* its call; a call is made only by the run standing at a pair, one at a
\* time, and the first call of a pair only when the pair before it has been
\* collected.
PrimaryCallsInOrder ==
  /\ [](\A t \in Threads :
          /\ \A k \in DOMAIN PrimaryCalls(t) :
                /\ PrimaryCalls(t)[k].model_type = PairModel(k)
                /\ PrimaryCalls(t)[k].scraper = PairSource(k)
          /\ Len(PrimaryCalls(t)) <= env.models * Len(SourceOrder)
          /\ LoopsDone(t) => Len(PrimaryCalls(t)) = env.models * Len(SourceOrder))
  /\ [][\A t \in Threads :
          (frame'[t].calls # frame[t].calls /\ thread[t].pc # "search_all") =>
             /\ thread[t].pc \in {"search", "alt"}
             /\ Len(frame'[t].calls) = Len(frame[t].calls) + 1
             /\ SubSeq(frame'[t].calls, 1, Len(frame[t].calls)) = frame[t].calls
             /\ Len(PrimaryCalls(t)') > Len(PrimaryCalls(t)) =>
                  /\ thread[t].pc = "search"
                  /\ frame[t].listings = << >>
                  /\ frame[t].completed = Len(PrimaryCalls(t))]_vars

\* C18: a run has searched two models, each on AutoTrader, Gumtree and
\* PistonHeads in that order
TwoModelsSearchedInOrder ==
  \E t \in Threads :
     /\ LoopsDone(t)
     /\ Len(PrimaryCalls(t)) >= 2 * Len(SourceOrder)
     /\ PrimaryCalls(t)[1].model_type # PrimaryCalls(t)[4].model_type
     /\ PrimaryCalls(t)[4].scraper = "AutoTrader"
     /\ PrimaryCalls(t)[6].scraper = "PistonHeads"

(***************************************************************************)
(* Properties: the supplementary pass                                      *)
(***************************************************************************)
\* Call c was made with the first search term of its model
IsPrimary(c) == c.search_term = TARGET_CARS[c.model_type].search_terms[1]

\* The primary call c calls for a supplementary pass
FewFromGumtree(c) ==
  /\ c.scraper = "Gumtree"
  /\ c.returned < 5
  /\ Len(TARGET_CARS[c.model_type].search_terms) > 1

\* C19: a pair gets a second call exactly when its source is Gumtree, its
\* primary call returned fewer than 5 listings and the model has more than
\* one search term; the second call is a single Gumtree call with the
\* second search term of the model, directly after the primary call; no
\* other call is ever made beside the primary ones.
SupplementaryPassExactly ==
  \A t \in Threads :
     LET calls == frame[t].calls
     IN  \A k \in DOMAIN calls :
           IF IsPrimary(calls[k])
           THEN IF FewFromGumtree(calls[k])
                THEN IF k = Len(calls) THEN thread[t].pc = "alt"
                     ELSE /\ ~IsPrimary(calls[k + 1])
                          /\ calls[k + 1].scraper = "Gumtree"
                          /\ calls[k + 1].model_type = calls[k].model_type
                          /\ calls[k + 1].search_term =
                               TARGET_CARS[calls[k].model_type].search_terms[2]
                ELSE /\ k = Len(calls) => thread[t].pc # "alt"
                     /\ k < Len(calls) => IsPrimary(calls[k + 1])
           ELSE /\ k > 1
                /\ IsPrimary(calls[k - 1])
                /\ FewFromGumtree(calls[k - 1])
                /\ k < Len(calls) => IsPrimary(calls[k + 1])

\* C19: Gumtree returned some listings but fewer than 5 to the primary call
\* and has been called a second time; AutoTrader returned none and has not
SecondCallAfterFewListings ==
  \E t \in Threads : \E k \in DOMAIN frame[t].calls :
     /\ k > 2
     /\ ~IsPrimary(frame[t].calls[k])
     /\ frame[t].calls[k - 1].returned > 0
     /\ frame[t].calls[k - 2].scraper = "AutoTrader"
     /\ frame[t].calls[k - 2].returned = 0

(***************************************************************************)
(* Properties: the merge of the supplementary pass                         *)
(***************************************************************************)
\* Run t has just merged the listings of a second call
Merged(t) ==
  /\ thread[t].pc = "collect"
  /\ frame[t].calls # << >>
  /\ ~IsPrimary(frame[t].calls[Len(frame[t].calls)])

\* The positions of the second-term listings that the merge keeps: the URL
\* is empty, or it is neither in the first-term list nor at an earlier
\* position of the second-term list
KeptOf(first, second) ==
  {i \in DOMAIN second :
     \/ second[i].url = ""
     \/ /\ \A j \in DOMAIN first : first[j].url # second[i].url
        /\ \A j \in 1..(i - 1) : second[j].url # second[i].url}

\* C20: the merged list of a supplementary pass is the first-term list
\* followed, in order, by exactly the second-term listings whose URL is
\* empty or has not appeared earlier in the merged list.
MergeKeepsNewUrlsInOrder ==
  \A t \in Threads : Merged(t) =>
     LET n      == Len(frame[t].calls)
         first  == frame[t].calls[n - 1].listings
         second == frame[t].calls[n].listings
         merged == frame[t].listings
         kept   == KeptOf(first, second)
     IN  /\ Len(merged) = Len(first) + Cardinality(kept)
         /\ SubSeq(merged, 1, Len(first)) = first
         /\ \A i \in kept :
               merged[Len(first) + Cardinality({j \in kept : j <= i})] = second[i]

\* C20: a merge has kept one second-term listing and dropped another one,
\* whose URL had appeared before it
MergeDroppedSeenUrl ==
  \E t \in Threads :
     /\ Merged(t)
     /\ LET n == Len(frame[t].calls)
        IN  /\ Len(frame[t].listings) > Len(frame[t].calls[n - 1].listings)
            /\ Len(frame[t].listings) <
                 Len(frame[t].calls[n - 1].listings) + Len(frame[t].calls[n].listings)

(***************************************************************************)
(* Properties: the pauses of a run                                         *)
(***************************************************************************)
\* C21: in a run, time.sleep is called between any two successive adapter
\* calls, the supplementary Gumtree call and a pair that ended in the
\* except clause included.
PauseBetweenCalls ==
  \A t \in Threads : \A k \in DOMAIN frame[t].calls :
     k > 1 => frame[t].calls[k].paused

(***************************************************************************)
(* Properties: the counter of completed searches                           *)
(***************************************************************************)
\* The pairs of run t that have ended: those that have had their primary
\* call, but for the pair the run is still working on
PairsEnded(t) ==
  Len(PrimaryCalls(t)) - (IF thread[t].pc \in {"alt", "collect"} THEN 1 ELSE 0)

\* C29: completed is incremented exactly once per (model, source) pair, on
\* the normal path and in the except clause alike: it counts the pairs that
\* have ended, never exceeds total_searches, and every progress percentage
\* reported lies in 0..100.
CompletedCountsPairs ==
  /\ \A t \in Threads :
        /\ frame[t].completed = PairsEnded(t)
        /\ frame[t].completed <= total_searches
  /\ scraper_status.progress \in 0..100
  /\ \A i \in DOMAIN scraper_status.action_log :
        scraper_status.action_log[i].pct \subseteq 0..100

\* C29: a run has left the loops after a pair that ended in the except
\* clause, with completed equal to total_searches
AllPairsCountedAfterError ==
  \E t \in Threads :
     /\ LoopsDone(t)
     /\ frame[t].completed = total_searches
     /\ \E i \in DOMAIN scraper_status.action_log :
           scraper_status.action_log[i].text = "Error"

(***************************************************************************)
(* Properties: the deals of a step                                         *)
(***************************************************************************)
\* Run t is in the loops of search_all, between two steps or at their end
InLoops(t) ==
  /\ ~thread[t].use_demo
  /\ thread[t].pc \in {"model", "search", "alt", "collect", "dedup"}

\* C30: at the end of each (model, source) step every listing of the step
\* that is in all_listings and satisfies the deal criteria is in
\* profitable_deals too, also when is_profitable raised on another listing
\* of the step; profitable_deals is a sub-collection of all_listings.
DealsOfStepCollected ==
  \A t \in Threads : InLoops(t) =>
     /\ \A l \in Range(finder[t].all_listings) :
           (~title_lower_raises(l) /\ is_profitable(l)) =>
              l \in Range(finder[t].profitable_deals)
     /\ Range(finder[t].profitable_deals) \subseteq Range(finder[t].all_listings)

(***************************************************************************)
(* Properties: the progress feed                                           *)
(***************************************************************************)
\* Run t has made its reset and has not ended
Underway(t) == thread[t].pc \notin {"idle", "start", "done"}

\* C22: from the reset of a run to its end the progress that the status
\* feed shows never decreases, and it is 100 when the run ends without
\* error.
ProgressNeverDecreases ==
  [][\A t \in Threads :
       /\ Underway(t) => scraper_status'.progress >= scraper_status.progress
       /\ (EndStep(t) /\ scraper_status'.error = {}) =>
             scraper_status'.progress = 100]_vars

(***************************************************************************)
(* Properties: the log of actions                                          *)
(***************************************************************************)
\* The last k entries of s
Latest(s, k) == SubSeq(s, Len(s) - k + 1, Len(s))

\* The most recent 30 entries of s
MostRecent30(s) == IF Len(s) > 30 THEN Latest(s, 30) ELSE s

\* A run makes its reset in this step
ResetStep == \E t \in Threads : thread[t].pc = "start" /\ thread'[t].pc # "start"

\* C23: after every call of log_action, action_log holds at most 30
\* entries, which are the most recent messages logged since the reset of the
\* run, in the order in which they were logged, and current_action is the
\* message of the last entry.
LogKeepsMostRecent ==
  /\ [](/\ Len(scraper_status.action_log) <= 30
        /\ scraper_status.action_log # << >> =>
             scraper_status.current_action =
               scraper_status.action_log[Len(scraper_status.action_log)].text)
  /\ [][LET old == scraper_status.action_log
            new == scraper_status'.action_log
        IN  \/ new = old /\ scraper_status'.current_action = scraper_status.current_action
            \/ \E k \in 1..2 :
                  /\ k <= Len(new)
                  /\ new = MostRecent30((IF ResetStep THEN << >> ELSE old) \o Latest(new, k))]_vars

\* C23: the log is full and has lost its oldest entry, the first message
\* of the run
LogFullOldestDropped ==
  /\ Len(scraper_status.action_log) = 30
  /\ scraper_status.action_log[1].text # "Starting Car Arbitrage Scraper..."

(***************************************************************************)
(* Properties: the end of a run                                            *)
(***************************************************************************)
\* C24: every started run ends, with running false; it ends completed,
\* with error None and last_run set, whenever no exception has escaped its
\* run body, even if every adapter call failed and no deal was found, and
\* it ends with an error only when an exception was raised outside the
\* adapters.
EveryRunEnds ==
  /\ \A t \in Threads : (thread[t].pc = "start") ~> (thread[t].pc = "done")
  /\ [][\A t \in Threads : EndStep(t) =>
          /\ ~scraper_status'.running
          /\ ~thread[t].failed =>
               (scraper_status'.error = {} /\ scraper_status'.last_run # {})
          /\ scraper_status'.error # {} => thread[t].failed]_vars

\* C24: a live run has ended completed although every one of its adapter
\* calls met a transport fault and no deal was found
RunCompletedThoughEveryCallFailed ==
  \E t \in Threads :
     /\ thread[t].pc = "done" /\ ~thread[t].use_demo
     /\ Len(frame[t].calls) > Len(scrapers)
     /\ \A k \in DOMAIN frame[t].calls : frame[t].calls[k].fault
     /\ ~scraper_status.running
     /\ scraper_status.error = {} /\ scraper_status.last_run # {}
     /\ latest_deals = << >>

(***************************************************************************)
(* Properties: a run that fails                                            *)
(***************************************************************************)
\* The step in which run t handles an exception that escaped its body
ExceptStep(t) == thread[t].pc = "except" /\ thread'[t].pc = "finally"

\* Run t is the only run there has been
OnlyRun(t) == \A u \in Threads \ {t} : thread[u].pc = "idle"

\* C25: when an exception escapes the run body, the except clause sets error
\* to the exception's message and appends an "ERROR: ..." entry to the feed,
\* leaving last_run and latest_deals as they were; the run then ends with
\* running false, again without touching last_run, latest_deals or error, so
\* that the run is not reported as completed: after the only run has failed,
\* error is set and last_run is still unset.
FailedRunReported ==
  /\ [][\A t \in Threads :
          /\ ExceptStep(t) =>
               /\ scraper_status'.error = {"OSError"}
               /\ scraper_status'.action_log # << >>
               /\ scraper_status'.action_log[Len(scraper_status'.action_log)].text
                    = "ERROR: OSError"
               /\ Len(scraper_status'.action_log) =
                    IF Len(scraper_status.action_log) < 30
                    THEN Len(scraper_status.action_log) + 1 ELSE 30
               /\ scraper_status'.last_run = scraper_status.last_run
               /\ latest_deals' = latest_deals
          /\ (EndStep(t) /\ thread[t].failed) =>
               /\ ~scraper_status'.running
               /\ scraper_status'.error = scraper_status.error
               /\ scraper_status'.last_run = scraper_status.last_run
               /\ latest_deals' = latest_deals]_vars
  /\ [](\A t \in Threads :
          (thread[t].failed /\ OnlyRun(t)) =>
             (scraper_status.error = {"OSError"} /\ scraper_status.last_run = {}))

\* C25: the only run has failed and ended while the list of deals it had
\* published remains
FailedRunKeepsPublishedDeals ==
  \E t \in Threads :
     /\ thread[t].pc = "done" /\ thread[t].failed /\ OnlyRun(t)
     /\ latest_deals # << >>
     /\ ~scraper_status.running

(***************************************************************************)
(* Properties: the demo run                                                *)
(***************************************************************************)
\* The positions of the samples for which is_profitable holds
ProfitableSamples == {i \in DOMAIN samples : is_profitable(CarListing(samples[i], i))}

\* deals is the list of the profitable samples, each built by CarListing, in
\* an order of non-increasing net_profit
DemoResult(deals) ==
  /\ SortedByNetProfit(deals)
  /\ Len(deals) = Cardinality(ProfitableSamples)
  /\ {deals[k] : k \in DOMAIN deals} =
       {deal_to_dict(CarListing(samples[i], i)) : i \in ProfitableSamples}

\* C26: a run started in demo mode never enters search_all, makes no adapter
\* call and starts no monitor; the step in which it stores its result leaves
\* in latest_deals exactly the sample listings for which is_profitable holds,
\* each built by CarListing, sorted by non-increasing net_profit, and sets
\* progress to 100; when it is the only run, it ends with that result and
\* with progress 100.
DemoRunBypassesSearch ==
  /\ [](\A t \in Threads : thread[t].use_demo =>
          /\ thread[t].pc \in {"start", "demo", "export", "except", "finally", "done"}
          /\ frame[t] = NoFrame
          /\ monitor[t].pc = "idle")
  /\ [][\A t \in Threads : (ResultStep(t) /\ thread[t].use_demo) =>
          /\ DemoResult(latest_deals')
          /\ scraper_status'.progress = 100
          /\ called' = called]_vars
  /\ [](\A t \in Threads :
          (thread[t].use_demo /\ thread[t].pc = "done" /\ OnlyRun(t)) =>
             (DemoResult(latest_deals) /\ scraper_status.progress = 100))

\* C26: the only run was a demo run and has ended, leaving the ten samples
DemoRunEnded ==
  \E t \in Threads :
     /\ thread[t].use_demo /\ thread[t].pc = "done" /\ OnlyRun(t)
     /\ Len(latest_deals) = Len(samples)
     /\ latest_deals[1].net_profit > latest_deals[Len(latest_deals)].net_profit

(***************************************************************************)
(* Properties: extract_price                                               *)
(***************************************************************************)
\* The text without its pound signs, commas and whitespace
Kept(text) == SelectSeq(text, LAMBDA c : c # "{pound}" /\ c # "," /\ c # " ")

\* The number that positions i..j of s write in decimal
Decimal(s, i, j) ==
  LET RECURSIVE Sum(_)
      Sum(k) == IF k > j THEN 0 ELSE DigitValue[s[k]] * 10 ^ (j - k) + Sum(k + 1)
  IN  Sum(i)

\* Positions i..j of s are its first contiguous run of digits
FirstDigitRun(s, i, j) ==
  /\ \A k \in i..j : s[k] \in Digits
  /\ \A k \in 1..(i - 1) : s[k] \notin Digits
  /\ j = Len(s) \/ s[j + 1] \notin Digits

\* The rows of the table extract_price, spelled character by character
Spelled ==
  ("4000" :> <<"4", "0", "0", "0">>) @@
  ("-4000" :> <<"-", "4", "0", "0", "0">>) @@
  ("0" :> <<"0">>) @@
  ("POA" :> <<"k", "k", "k">>) @@
  ("{pound}4,000" :> <<"{pound}", "4", ",", "0", "0", "0">>) @@
  ("" :> << >>)

FinalResultStays ==
  \A t \in Threads :
     (thread[t].pc = "done" /\ ~thread[t].use_demo /\ ~thread[t].failed /\ OnlyRun(t)) =>
        latest_deals = published(finder[t].profitable_deals)

====
